---- MODULE Spec2Model ----
(***************************************************************************)
(* Blackjack-GestureAI backend: the session store and game engine of       *)
(* backend/services/game_service.py.                                        *)
(*                                                                          *)
(* Python objects are modelled with their identity where the code shares    *)
(* them: a game record (a dict) holds REFERENCES to its three list objects  *)
(* (deck, playerHand, dealerHand), which live in `heap`.  dict(game) copies *)
(* the references, list.pop / list.append change the list object in place,  *)
(* and an assignment game["deck"] = ... binds a new list object.            *)
(***************************************************************************)
EXTENDS Integers, Sequences, FiniteSets, TLC

(***************************************************************************)
(* Bounds of the model.                                                     *)
(***************************************************************************)
\* random.shuffle is bounded: only the first PrefixLen positions of a
\* shuffled deck are drawn at random, and only from ShufflePool; the other
\* cards follow in the order of the input.
PrefixLen == 3

\* The place_bet calls that deal (the rejected ones are not counted).
MaxDeals == 2

\* The session identifiers the callers use.
SessionIds == {"s1"}

\* The threads that call hit at the same time.
NumThreads == 2

\* The place_bet calls that deal while a caller keeps a returned dict.
MaxSnapDeals == 1

\* The longest hand calculate_score is applied to on its own.
MaxHand == 4

\* The last hour the clock of the janitor's specification reaches.
MaxTime == 26

\* The last half second the clock of the detector's specifications reaches.
MaxClock == 4

\* The detector calls a thread makes, one after the other.
MaxCallsEach == 2

\* The last half second the clock reaches while get_current_gesture is called.
MaxCurrentClock == 5

\* How far from 21 the scores lie that the comparison of decide_winner is
\* applied to on its own.
MaxOver == 2

(***************************************************************************)
(* Card and deck primitives.                                                *)
(***************************************************************************)
suits == <<"hearts", "diamonds", "clubs", "spades">>

ranks == <<"A", "2", "3", "4", "5", "6", "7", "8", "9", "10", "J", "Q", "K">>

Card(rank, suit) == [rank |-> rank, suit |-> suit]

Range(s) == {s[i] : i \in 1..Len(s)}

Min(a, b) == IF a < b THEN a ELSE b

\* create_deck: suit-major, rank-minor.
create_deck ==
    [i \in 1..(Len(suits) * Len(ranks)) |->
        Card(ranks[((i - 1) % Len(ranks)) + 1], suits[((i - 1) \div Len(ranks)) + 1])]

\* The cards random.shuffle may bring to the front in this model.
ShufflePool ==
    {Card("A", "hearts"), Card("K", "hearts"), Card("6", "hearts"),
     Card("A", "diamonds"), Card("K", "diamonds")}

\* shuffle_deck: the set of results random.shuffle may give for a copy of
\* `deck` (within the bound above).  The input is not changed.
shuffle_deck(deck) ==
    LET pool == {c \in Range(deck) : c \in ShufflePool}
        k    == Min(PrefixLen, Cardinality(pool))
        tops == {p \in [1..k -> pool] : \A i, j \in 1..k : i /= j => p[i] /= p[j]}
    IN  {p \o SelectSeq(deck, LAMBDA c : \A i \in 1..k : p[i] /= c) : p \in tops}

\* shuffle_deck(create_deck()): what a newly built deck can be shuffled to.
NewShuffledDeck == shuffle_deck(create_deck)

\* int(rank) for the ranks "2" .. "10".
IntOfRank(rank) ==
    CASE rank = "2" -> 2 [] rank = "3" -> 3 [] rank = "4" -> 4 [] rank = "5" -> 5
      [] rank = "6" -> 6 [] rank = "7" -> 7 [] rank = "8" -> 8 [] rank = "9" -> 9
      [] rank = "10" -> 10

\* The first loop of calculate_score: aces count 11, K/Q/J count 10.
RECURSIVE RawTotal(_)
RawTotal(hand) ==
    IF hand = <<>> THEN 0
    ELSE LET rank == Head(hand).rank
         IN  (IF rank = "A" THEN 11
              ELSE IF rank \in {"K", "Q", "J"} THEN 10
              ELSE IntOfRank(rank)) + RawTotal(Tail(hand))

CountAces(hand) == Len(SelectSeq(hand, LAMBDA c : c.rank = "A"))

\* AdjustForAces counting at most one ace as 1.
AdjustOneAce(total, aces) ==
    IF aces > 0 /\ total > 21 THEN total - 10 ELSE total

\* The second loop of calculate_score: while aces > 0 and total > 21.
RECURSIVE AdjustForAces(_, _)
AdjustForAces(total, aces) ==
    IF aces > 0 /\ total > 21 THEN AdjustForAces(total - 10, aces - 1) ELSE total

calculate_score(hand) ==
    IF hand = <<>> THEN 0 ELSE AdjustForAces(RawTotal(hand), CountAces(hand))

is_blackjack(hand) == Len(hand) = 2 /\ calculate_score(hand) = 21

cards_equal(card1, card2) == card1.rank = card2.rank /\ card1.suit = card2.suit

\* remove_used_cards_from_deck removing nothing.
remove_used_cards_keeping_all(deck, used_cards) == deck

remove_used_cards_from_deck(deck, used_cards) ==
    SelectSeq(deck, LAMBDA deck_card :
        ~ \E i \in 1..Len(used_cards) : cards_equal(deck_card, used_cards[i]))

(***************************************************************************)
(* Values.                                                                  *)
(***************************************************************************)
\* Python's None as the value of the field "winner".
None == "None"

\* What a call returns: None, the empty dict, or a dict of the game's fields.
RetNone == [tag |-> "None"]

RetEmpty == [tag |-> "empty"]

RetDict(d) == [tag |-> "dict", val |-> d]

\* A message and the values formatted into it.
Msg(text, a, b) == [text |-> text, a |-> a, b |-> b]

\* dict(game): a new dict with the same values; the three lists are not
\* copied, the new dict refers to the same list objects.
dict(game) == game

StartingMoney == 1000

\* await asyncio.sleep(3600), on a clock that counts hours.
JanitorPeriod == 1

\* cleanup_old_sessions(max_age_hours=24)
MaxAgeHours == 24

DealerStand == 17

(***************************************************************************)
(* The heap of list objects.  A world is [games, heap].                     *)
(* (Values used more than once are passed as operator arguments, which TLC  *)
(* evaluates once, so several operations are written in stages.)            *)
(***************************************************************************)
MinOf(S) == CHOOSE x \in S : \A y \in S : x <= y

\* The references not in use, as many as asked for and the least ones first.
FreeRefs(h, n) == (1..(Cardinality(DOMAIN h) + n)) \ DOMAIN h

\* A new list object holding `items`: the heap with it, and its reference.
NewListAt(h, r, items) == [heap |-> h @@ (r :> items), ref |-> r]

NewList(h, items) == NewListAt(h, MinOf(FreeRefs(h, 1)), items)

\* Three new list objects at once.
NewListsAt(h, r1, r2, r3, items1, items2, items3) ==
    [heap |-> h @@ (r1 :> items1) @@ (r2 :> items2) @@ (r3 :> items3),
     ref1 |-> r1, ref2 |-> r2, ref3 |-> r3]

NewListsIn(h, free, r1, items1, items2, items3) ==
    NewListsAt(h, r1, MinOf(free \ {r1}),
               MinOf(free \ {r1, MinOf(free \ {r1})}), items1, items2, items3)

NewLists(h, items1, items2, items3) ==
    NewListsIn(h, FreeRefs(h, 3), MinOf(FreeRefs(h, 3)), items1, items2, items3)

ListRefs(game) == {game.deck, game.playerHand, game.dealerHand}

SetGame(w, session_id, game) ==
    [w EXCEPT !.games = (session_id :> game) @@ @]

SetList(w, ref, items) == [w EXCEPT !.heap[ref] = items]

\* The dict literal of initialize_game and of reset_game (the same one),
\* its three empty lists being the new list objects n.
FreshGameAt(w, session_id, t, n) ==
    [games |-> (session_id :>
                 [deck |-> n.ref1, dealerHand |-> n.ref2, playerHand |-> n.ref3,
                  dealerScore |-> 0, playerScore |-> 0,
                  playerMoney |-> StartingMoney, bet |-> 0,
                  gameState |-> "idle", winner |-> None,
                  message |-> Msg("Welcome to Blackjack! Place your bet to start.", 0, 0),
                  isBlackjack |-> FALSE,
                  roundsWon |-> 0, roundsLost |-> 0, roundsPushed |-> 0,
                  lastActivity |-> t]) @@ w.games,
     heap |-> n.heap]

FreshGame(w, session_id, t) ==
    FreshGameAt(w, session_id, t, NewLists(w.heap, <<>>, <<>>, <<>>))

(***************************************************************************)
(* Session store and game engine.  Every operation runs its whole body     *)
(* inside `with _games_lock`; it is given the world w and the time t of     *)
(* time.time(), and yields the outcome [w, ret] it ends with, or the set of *)
(* the outcomes it can end with where it calls random.shuffle.              *)
(***************************************************************************)
Outcome(w, r) == [w |-> w, ret |-> r]

\* return dict(_games[session_id])
ReturnGame(w, session_id) == Outcome(w, RetDict(dict(w.games[session_id])))

\* The session's dict now reads `game`; return dict(game).
StoreAndReturn(w, session_id, game) ==
    Outcome(SetGame(w, session_id, game), RetDict(dict(game)))

initialize_game(w, session_id, t) ==
    ReturnGame(IF session_id \notin DOMAIN w.games
               THEN FreshGame(w, session_id, t)
               ELSE w,
               session_id)

get_game_state(w, session_id, t) ==
    IF session_id \in DOMAIN w.games
    THEN StoreAndReturn(w, session_id, [w.games[session_id] EXCEPT !.lastActivity = t])
    ELSE Outcome(w, RetNone)

\* BlackjackWinnings rounding up instead of down.
BlackjackWinningsRoundedUp(bet_amount) == (bet_amount * 3 + 1) \div 2

\* int(bet_amount * 1.5)
BlackjackWinnings(bet_amount) == (bet_amount * 3) \div 2

\* Payout taking the bet twice when the dealer wins.
PayoutLosingTwice(game, winner) ==
    IF winner = "player"
    THEN [game EXCEPT
            !.playerMoney = IF game.isBlackjack
                            THEN @ + game.bet + BlackjackWinnings(game.bet)
                            ELSE @ + game.bet * 2,
            !.roundsWon = @ + 1]
    ELSE IF winner = "dealer"
    THEN [game EXCEPT !.playerMoney = @ - 2 * game.bet, !.roundsLost = @ + 1]
    ELSE [game EXCEPT !.roundsPushed = @ + 1]

\* The money and counter updates of handle_round_over.
Payout(game, winner) ==
    IF winner = "player"
    THEN [game EXCEPT
            !.playerMoney = IF game.isBlackjack
                            THEN @ + game.bet + BlackjackWinnings(game.bet)
                            ELSE @ + game.bet * 2,
            !.roundsWon = @ + 1]
    ELSE IF winner = "dealer"
    THEN [game EXCEPT !.playerMoney = @ - game.bet, !.roundsLost = @ + 1]
    ELSE [game EXCEPT !.roundsPushed = @ + 1]

handle_round_over(w, session_id, winner, message, t) ==
    IF session_id \notin DOMAIN w.games
    THEN Outcome(w, RetEmpty)
    ELSE StoreAndReturn(w, session_id,
            [Payout(w.games[session_id], winner) EXCEPT
                !.gameState = "round_over",
                !.winner = winner,
                !.message = message,
                !.lastActivity = t])

\* WinnerOf testing the dealer's score first.
WinnerOfDealerFirst(player_score, dealer_score) ==
    IF dealer_score > 21
    THEN [winner |-> "player", message |-> Msg("Dealer busted! You win!", 0, 0)]
    ELSE IF player_score > 21 THEN [winner |-> "dealer", message |-> Msg("You busted!", 0, 0)]
    ELSE IF player_score > dealer_score
    THEN [winner |-> "player", message |-> Msg("You win! {} beats {}", player_score, dealer_score)]
    ELSE IF dealer_score > player_score
    THEN [winner |-> "dealer", message |-> Msg("Dealer wins! {} beats {}", dealer_score, player_score)]
    ELSE [winner |-> "push", message |-> Msg("Push! Both have {}", player_score, 0)]

\* The comparison of decide_winner.
WinnerOf(player_score, dealer_score) ==
    IF player_score > 21 THEN [winner |-> "dealer", message |-> Msg("You busted!", 0, 0)]
    ELSE IF dealer_score > 21
    THEN [winner |-> "player", message |-> Msg("Dealer busted! You win!", 0, 0)]
    ELSE IF player_score > dealer_score
    THEN [winner |-> "player", message |-> Msg("You win! {} beats {}", player_score, dealer_score)]
    ELSE IF dealer_score > player_score
    THEN [winner |-> "dealer", message |-> Msg("Dealer wins! {} beats {}", dealer_score, player_score)]
    ELSE [winner |-> "push", message |-> Msg("Push! Both have {}", player_score, 0)]

RoundOverAs(w, session_id, d, t) ==
    handle_round_over(w, session_id, d.winner, d.message, t)

decide_winner(w, session_id, t) ==
    IF session_id \notin DOMAIN w.games
    THEN Outcome(w, RetEmpty)
    ELSE RoundOverAs(w, session_id,
            WinnerOf(w.games[session_id].playerScore, w.games[session_id].dealerScore), t)

\* deal_initial_hands with the dealer's slice one place early.
deal_initial_hands_overlapping(deck) ==
    {[playerHand |-> SubSeq(d, 1, 2),
      dealerHand |-> SubSeq(d, 2, 3),
      remaining_deck |-> SubSeq(d, 5, Len(d))] :
        d \in IF Len(deck) < 4 THEN NewShuffledDeck ELSE {deck}}

\* deal_initial_hands: the slices are new lists.
deal_initial_hands(deck) ==
    {[playerHand |-> SubSeq(d, 1, 2),
      dealerHand |-> SubSeq(d, 3, 4),
      remaining_deck |-> SubSeq(d, 5, Len(d))] :
        d \in IF Len(deck) < 4 THEN NewShuffledDeck ELSE {deck}}

\* place_bet: deck = shuffle_deck(create_deck()); hands = deal_initial_hands(deck)
NewDeals == UNION {deal_initial_hands(deck) : deck \in NewShuffledDeck}

\* game["deck"] = shuffled, a new list object.
SetDeck(w, session_id, n) ==
    [games |-> (session_id :> [w.games[session_id] EXCEPT !.deck = n.ref]) @@ w.games,
     heap |-> n.heap]

\* ensure_sufficient_deck: the worlds it can leave (one, unless it reshuffles).
ensure_sufficient_deck(w, session_id, cards_needed) ==
    IF Len(w.heap[w.games[session_id].deck]) < cards_needed
    THEN {SetDeck(w, session_id, NewList(w.heap, shuffled)) :
            shuffled \in shuffle_deck(
                remove_used_cards_from_deck(
                    create_deck,
                    w.heap[w.games[session_id].playerHand]
                        \o w.heap[w.games[session_id].dealerHand]))}
    ELSE {w}

\* BetRejected without the comparison with the balance.
BetRejectedBelowOne(bet_amount, game) == bet_amount < 1

\* BetRejected with the second comparison off by one.
BetRejectedAtBalance(bet_amount, game) ==
    bet_amount < 1 \/ bet_amount >= game.playerMoney

\* The two validations of place_bet.
BetRejected(bet_amount, game) ==
    bet_amount < 1 \/ bet_amount > game.playerMoney

\* Dealt taking the bet out of the balance when it is placed.
DealtDeducting(w, session_id, bet_amount, hands, t, n) ==
    [games |-> (session_id :>
                 [w.games[session_id] EXCEPT
                    !.bet = bet_amount,
                    !.playerMoney = @ - bet_amount,
                    !.deck = n.ref1,
                    !.dealerHand = n.ref2,
                    !.playerHand = n.ref3,
                    !.dealerScore = calculate_score(hands.dealerHand),
                    !.playerScore = calculate_score(hands.playerHand),
                    !.winner = None,
                    !.message = Msg("", 0, 0),
                    !.isBlackjack = FALSE,
                    !.lastActivity = t]) @@ w.games,
     heap |-> n.heap]

\* place_bet, "Place bet and deal cards": the fields it sets, the three
\* lists of `hands` being the new list objects n.
Dealt(w, session_id, bet_amount, hands, t, n) ==
    [games |-> (session_id :>
                 [w.games[session_id] EXCEPT
                    !.bet = bet_amount,
                    !.deck = n.ref1,
                    !.dealerHand = n.ref2,
                    !.playerHand = n.ref3,
                    !.dealerScore = calculate_score(hands.dealerHand),
                    !.playerScore = calculate_score(hands.playerHand),
                    !.winner = None,
                    !.message = Msg("", 0, 0),
                    !.isBlackjack = FALSE,
                    !.lastActivity = t]) @@ w.games,
     heap |-> n.heap]

\* CheckBlackjack testing the player's natural before the tie.
CheckBlackjackPlayerFirst(w, session_id, player_blackjack, dealer_blackjack, t) ==
    IF player_blackjack \/ dealer_blackjack
    THEN handle_round_over(
            SetGame(w, session_id, [w.games[session_id] EXCEPT !.isBlackjack = TRUE]),
            session_id,
            IF player_blackjack THEN "player" ELSE "dealer",
            IF player_blackjack THEN Msg("Blackjack! You win!", 0, 0)
            ELSE Msg("Dealer has Blackjack!", 0, 0),
            t)
    ELSE StoreAndReturn(w, session_id,
            [w.games[session_id] EXCEPT
                !.gameState = "in_progress",
                !.message = Msg("Game in progress. Hit or Stand?", 0, 0)])

\* place_bet, "Check for immediate blackjack" to the end.
CheckBlackjack(w, session_id, player_blackjack, dealer_blackjack, t) ==
    IF player_blackjack \/ dealer_blackjack
    THEN handle_round_over(
            SetGame(w, session_id, [w.games[session_id] EXCEPT !.isBlackjack = TRUE]),
            session_id,
            IF player_blackjack /\ dealer_blackjack THEN "push"
            ELSE IF player_blackjack THEN "player" ELSE "dealer",
            IF player_blackjack /\ dealer_blackjack THEN Msg("Both have Blackjack!", 0, 0)
            ELSE IF player_blackjack THEN Msg("Blackjack! You win!", 0, 0)
            ELSE Msg("Dealer has Blackjack!", 0, 0),
            t)
    ELSE StoreAndReturn(w, session_id,
            [w.games[session_id] EXCEPT
                !.gameState = "in_progress",
                !.message = Msg("Game in progress. Hit or Stand?", 0, 0)])

PlaceAndDeal(w, session_id, bet_amount, hands, t) ==
    CheckBlackjack(
        Dealt(w, session_id, bet_amount, hands, t,
              NewLists(w.heap, hands.remaining_deck, hands.dealerHand, hands.playerHand)),
        session_id,
        is_blackjack(hands.playerHand),
        is_blackjack(hands.dealerHand),
        t)

\* place_bet once the record exists.
PlaceBetOn(w, session_id, bet_amount, t) ==
    IF BetRejected(bet_amount, w.games[session_id])
    THEN {Outcome(w, RetNone)}
    ELSE {PlaceAndDeal(w, session_id, bet_amount, hands, t) : hands \in NewDeals}

place_bet(w, session_id, bet_amount, t) ==
    PlaceBetOn(IF session_id \notin DOMAIN w.games
               THEN initialize_game(w, session_id, t).w
               ELSE w,
               session_id, bet_amount, t)

\* card = game["deck"].pop(0): the list object loses its first item.
DeckPop(w, session_id) ==
    [w |-> SetList(w, w.games[session_id].deck, Tail(w.heap[w.games[session_id].deck])),
     card |-> Head(w.heap[w.games[session_id].deck])]

\* game[hand].append(card): the list object gains an item.
HandAppend(w, ref, card) == SetList(w, ref, Append(w.heap[ref], card))

TakeCard(p, ref) == HandAppend(p.w, ref, p.card)

\* card = game["deck"].pop(0); game[hand].append(card)
DrawTo(w, session_id, hand) ==
    TakeCard(DeckPop(w, session_id), w.games[session_id][hand])

\* PlayAllowed with the phase test left out.
PlayAllowedAnyPhase(game) == TRUE

\* The guard of hit and of stand on an existing record.
PlayAllowed(game) == game.gameState = "in_progress"

\* PlayerScored leaving the score as it was.
PlayerScoredStale(w, session_id, t) ==
    SetGame(w, session_id, [w.games[session_id] EXCEPT !.lastActivity = t])

\* hit: game["playerScore"] = calculate_score(...); game["lastActivity"] = ...
PlayerScored(w, session_id, t) ==
    SetGame(w, session_id,
        [w.games[session_id] EXCEPT
            !.playerScore = calculate_score(w.heap[w.games[session_id].playerHand]),
            !.lastActivity = t])

\* Busted with the comparison off by one.
BustedOver22(game) == game.playerScore > 22

\* hit: if game["playerScore"] > 21
Busted(game) == game.playerScore > 21

\* hit: the messages of a hand that is not bust, and the return.
HitMessage(w, session_id) ==
    StoreAndReturn(w, session_id,
        [w.games[session_id] EXCEPT !.message =
            IF w.games[session_id].playerScore = 21
            THEN Msg("You have 21! Consider standing.", 0, 0)
            ELSE Msg("You have {}. Hit or Stand?", w.games[session_id].playerScore, 0)])

\* hit: the call of handle_round_over for a bust hand.
HitBust(w, session_id, t) ==
    handle_round_over(w, session_id, "dealer", Msg("Bust! You went over 21.", 0, 0), t)

\* hit: the bust check and what follows it.
HitVerdict(w, session_id, t) ==
    IF Busted(w.games[session_id])
    THEN HitBust(w, session_id, t)
    ELSE HitMessage(w, session_id)

\* hit from "Deal card" on.
HitDraw(w, session_id, t) ==
    HitVerdict(PlayerScored(DrawTo(w, session_id, "playerHand"), session_id, t),
               session_id, t)

hit(w, session_id, t) ==
    IF session_id \notin DOMAIN w.games
    THEN {Outcome(w, RetNone)}
    ELSE IF ~ PlayAllowed(w.games[session_id])
    THEN {ReturnGame(w, session_id)}
    ELSE {IF w1.heap[w1.games[session_id].deck] = <<>>
          THEN ReturnGame(w1, session_id)
          ELSE HitDraw(w1, session_id, t) :
            w1 \in ensure_sufficient_deck(w, session_id, 1)}

\* stand: game["dealerScore"] = calculate_score(game["dealerHand"])
DealerScored(w, session_id) ==
    SetGame(w, session_id,
        [w.games[session_id] EXCEPT
            !.dealerScore = calculate_score(w.heap[w.games[session_id].dealerHand])])

\* DealerPlay drawing one card at most.
DealerPlayOnce(w, session_id) ==
    IF w.games[session_id].dealerScore < DealerStand
    THEN {IF w1.heap[w1.games[session_id].deck] = <<>>
          THEN w1
          ELSE DealerScored(DrawTo(w1, session_id, "dealerHand"), session_id) :
            w1 \in ensure_sufficient_deck(w, session_id, 1)}
    ELSE {w}

\* The dealer's loop of stand: the worlds it can end in.
RECURSIVE DealerPlay(_, _)
DealerPlay(w, session_id) ==
    IF w.games[session_id].dealerScore < DealerStand
    THEN UNION {IF w1.heap[w1.games[session_id].deck] = <<>>
                THEN {w1}
                ELSE DealerPlay(DealerScored(DrawTo(w1, session_id, "dealerHand"), session_id),
                                session_id) :
                  w1 \in ensure_sufficient_deck(w, session_id, 1)}
    ELSE {w}

\* game["lastActivity"] = time.time()
Touch(w, session_id, t) ==
    SetGame(w, session_id, [w.games[session_id] EXCEPT !.lastActivity = t])

\* stand making the record it does not find, as place_bet does.
stand_initializing(w, session_id, t) ==
    IF session_id \notin DOMAIN w.games
    THEN {initialize_game(w, session_id, t)}
    ELSE IF ~ PlayAllowed(w.games[session_id])
    THEN {ReturnGame(w, session_id)}
    ELSE {decide_winner(Touch(w1, session_id, t), session_id, t) :
            w1 \in DealerPlay(w, session_id)}

stand(w, session_id, t) ==
    IF session_id \notin DOMAIN w.games
    THEN {Outcome(w, RetNone)}
    ELSE IF ~ PlayAllowed(w.games[session_id])
    THEN {ReturnGame(w, session_id)}
    ELSE {decide_winner(Touch(w1, session_id, t), session_id, t) :
            w1 \in DealerPlay(w, session_id)}

\* NewRoundAt building the record anew, as reset_game does.
NewRoundAtFresh(w, session_id, t, n) ==
    ReturnGame(FreshGameAt(w, session_id, t, n), session_id)

\* new_round on an existing record: game.update({...}), its three empty
\* lists being the new list objects n.
NewRoundAt(w, session_id, t, n) ==
    StoreAndReturn([w EXCEPT !.heap = n.heap], session_id,
        [w.games[session_id] EXCEPT
            !.deck = n.ref1, !.dealerHand = n.ref2, !.playerHand = n.ref3,
            !.dealerScore = 0, !.playerScore = 0,
            !.bet = 0,
            !.gameState = "idle",
            !.winner = None,
            !.message = Msg("Place your bet to start a new round", 0, 0),
            !.isBlackjack = FALSE,
            !.playerMoney = w.games[session_id].playerMoney,
            !.roundsWon = w.games[session_id].roundsWon,
            !.roundsLost = w.games[session_id].roundsLost,
            !.roundsPushed = w.games[session_id].roundsPushed,
            !.lastActivity = t])

new_round(w, session_id, t) ==
    IF session_id \notin DOMAIN w.games
    THEN initialize_game(w, session_id, t)
    ELSE NewRoundAt(w, session_id, t, NewLists(w.heap, <<>>, <<>>, <<>>))

\* reset_game keeping a record that exists.
reset_game_if_absent(w, session_id, t) == initialize_game(w, session_id, t)

reset_game(w, session_id, t) ==
    ReturnGame(FreshGame(w, session_id, t), session_id)

(***************************************************************************)
(* State.                                                                   *)
(***************************************************************************)
VARIABLES
    games,      \* _games: session identifier -> game record
    heap,       \* the list objects the records and the returned dicts refer to
    now,        \* the value time.time() returns
    call,       \* the call made last: its name, session identifier and argument
    ret,        \* what that call returned
    held,       \* a returned dict a caller has kept, with its content when returned
    deals,      \* how many place_bet calls have dealt so far
    lock,       \* _games_lock: the thread that owns it and how often it took it
    threads,    \* the threads making calls: where each is, and its local values
    launch,     \* the store as it was when those threads were started
    app,        \* the application of main.py: its phase and its cleanup task
    detector    \* gesture_detector, the one GestureDetector of the process

vars == <<games, heap, now, call, ret, held, deals, lock, threads, launch, app, detector>>

World == [games |-> games, heap |-> heap]

NoCall == [op |-> "none", session_id |-> "", arg |-> 0]

\* A game dict with its three lists read out of the heap h.
Content(h, game) ==
    [game EXCEPT !.deck = h[game.deck],
                 !.playerHand = h[game.playerHand],
                 !.dealerHand = h[game.dealerHand]]

\* The list objects still referred to: by a record, by the dict returned
\* last, by the dict a caller has kept.  The others are garbage.
Roots(gs, r, hd) ==
    UNION {ListRefs(gs[s]) : s \in DOMAIN gs}
        \cup (IF r.tag = "dict" THEN ListRefs(r.val) ELSE {})
        \cup (IF hd.tag = "dict" THEN ListRefs(hd.val) ELSE {})

Collect(h, roots) == [r \in roots |-> h[r]]

Threads == 1..NumThreads

\* threading.RLock(): not owned.
Unlocked == [owner |-> 0, count |-> 0]

\* The local variable `card` of a thread that has drawn nothing.
NoCard == [rank |-> "", suit |-> ""]

\* main.py after startup: the server is up and session_cleanup_task sleeps
\* until `wake`.
AppUp == [phase |-> "up", task |-> "sleeping", wake |-> JanitorPeriod]

\* GestureDetector.__init__ at time t.
NewDetector(t) ==
    [last_gesture |-> "idle",
     gesture_confidence |-> 0,
     last_detection_time |-> t,
     lock |-> 0,
     resetting |-> FALSE,
     gesture_history |-> <<>>]

\* A thread about to call hit.
NewThread == [pc |-> "call", card |-> NoCard, score |-> 0, ret |-> RetNone]

Init ==
    /\ games = [s \in {} |-> 0]
    /\ heap = [r \in {} |-> <<>>]
    /\ now = 0
    /\ call = NoCall
    /\ ret = RetNone
    /\ held = RetNone
    /\ deals = 0
    /\ lock = Unlocked
    /\ threads = [i \in Threads |-> NewThread]
    /\ launch = [games |-> games, heap |-> heap]
    /\ app = AppUp
    /\ detector = NewDetector(now)

\* A call returns with outcome o.
Return(op, session_id, arg, o) ==
    /\ games' = o.w.games
    /\ heap' = Collect(o.w.heap, Roots(o.w.games, o.ret, held))
    /\ ret' = o.ret
    /\ call' = [op |-> op, session_id |-> session_id, arg |-> arg]
    /\ UNCHANGED <<now, held, lock, threads, launch, app, detector>>

\* The balance place_bet finds (a missing record is created first).
Balance(session_id) ==
    IF session_id \in DOMAIN games THEN games[session_id].playerMoney ELSE StartingMoney

\* The amounts callers bet: nothing, a small odd amount, the whole balance,
\* and one more than the balance.
BetAmounts(session_id) == {0, 3, Balance(session_id), Balance(session_id) + 1}

(***************************************************************************)
(* The calls.                                                               *)
(***************************************************************************)
InitializeGame(s) ==
    /\ Return("initialize_game", s, 0, initialize_game(World, s, now))
    /\ UNCHANGED deals

GetGameState(s) ==
    /\ Return("get_game_state", s, 0, get_game_state(World, s, now))
    /\ UNCHANGED deals

\* place_bet, while fewer than `limit` calls have dealt (a call that is
\* rejected deals nothing and is always made).
PlaceBetWithin(s, amount, limit) ==
    /\ deals < limit \/ amount < 1 \/ amount > Balance(s)
    /\ \E o \in place_bet(World, s, amount, now) :
        /\ Return("place_bet", s, amount, o)
        /\ deals' = IF o.ret.tag = "dict" THEN deals + 1 ELSE deals

PlaceBet(s, amount) == PlaceBetWithin(s, amount, MaxDeals)

Hit(s) ==
    /\ \E o \in hit(World, s, now) : Return("hit", s, 0, o)
    /\ UNCHANGED deals

Stand(s) ==
    /\ \E o \in stand(World, s, now) : Return("stand", s, 0, o)
    /\ UNCHANGED deals

NewRound(s) ==
    /\ Return("new_round", s, 0, new_round(World, s, now))
    /\ UNCHANGED deals

ResetGame(s) ==
    /\ Return("reset_game", s, 0, reset_game(World, s, now))
    /\ UNCHANGED deals

Next ==
    \E s \in SessionIds :
        \/ InitializeGame(s)
        \/ GetGameState(s)
        \/ \E amount \in BetAmounts(s) : PlaceBet(s, amount)
        \/ Hit(s)
        \/ Stand(s)
        \/ NewRound(s)
        \/ ResetGame(s)

Spec == Init /\ [][Next]_vars

(***************************************************************************)
(* A caller that keeps a returned dict (SpecSnap).                          *)
(***************************************************************************)
\* The caller keeps the dict the last call returned; `seen` is what the
\* dict reads when it is returned.
Keep ==
    /\ ret.tag = "dict"
    /\ held = RetNone
    /\ held' = [tag |-> "dict", val |-> ret.val, seen |-> Content(heap, ret.val)]
    /\ UNCHANGED <<games, heap, now, call, ret, deals, lock, threads, launch, app, detector>>

SnapNext ==
    \/ Keep
    \/ \E s \in SessionIds :
        \/ InitializeGame(s)
        \/ GetGameState(s)
        \/ \E amount \in BetAmounts(s) : PlaceBetWithin(s, amount, MaxSnapDeals)
        \/ Hit(s)
        \/ Stand(s)
        \/ NewRound(s)
        \/ ResetGame(s)

SpecSnap == Init /\ [][SnapNext]_vars

(***************************************************************************)
(* Threads calling hit(session_id) at the same time (SpecConc).  Each       *)
(* thread runs the statements of hit one at a time; the threads interleave  *)
(* as the lock lets them.                                                   *)
(***************************************************************************)
\* Acquirable for a lock that keeps nobody out.
AcquirableAlways(l, self) == TRUE

\* RLock.acquire goes through when the lock is free or the caller's own.
Acquirable(l, self) == l.owner \in {0, self}

Acquire(l, self) ==
    IF l.owner = self THEN [l EXCEPT !.count = @ + 1] ELSE [owner |-> self, count |-> 1]

Release(l, self) ==
    IF l.owner /= self THEN l
    ELSE IF l.count = 1 THEN Unlocked
    ELSE [l EXCEPT !.count = @ - 1]

\* The store is a round the engine has dealt for a bet of 3, settled or in
\* progress, and every thread is about to call hit.
ConcInit ==
    /\ \E o \in place_bet([games |-> [s \in {} |-> 0], heap |-> [r \in {} |-> <<>>]],
                          CHOOSE s \in SessionIds : TRUE, 3, 0) :
        /\ games = o.w.games
        /\ heap = Collect(o.w.heap, Roots(o.w.games, RetNone, RetNone))
    /\ now = 0
    /\ call = NoCall
    /\ ret = RetNone
    /\ held = RetNone
    /\ deals = 1
    /\ lock = Unlocked
    /\ threads = [i \in Threads |-> NewThread]
    /\ launch = [games |-> games, heap |-> heap]
    /\ app = AppUp
    /\ detector = NewDetector(now)

\* The thread goes to pc with its local values changed as `local` says.
Goto(self, pc, local) ==
    threads' = [threads EXCEPT ![self] = [local EXCEPT !.pc = pc]]

InStore(w) ==
    /\ games' = w.games
    /\ heap' = w.heap

Quiet == UNCHANGED <<now, call, ret, held, deals, launch, app, detector>>

\* with _games_lock:
HitEnter(self) ==
    /\ threads[self].pc = "call"
    /\ Acquirable(lock, self)
    /\ lock' = Acquire(lock, self)
    /\ Goto(self, "get", threads[self])
    /\ UNCHANGED <<games, heap>>
    /\ Quiet

\* game = _games.get(session_id); the guard and its return.
HitGuard(self, s) ==
    /\ threads[self].pc = "get"
    /\ IF s \notin DOMAIN games
       THEN Goto(self, "exit", [threads[self] EXCEPT !.ret = RetNone])
       ELSE IF ~ PlayAllowed(games[s])
       THEN Goto(self, "exit", [threads[self] EXCEPT !.ret = RetDict(dict(games[s]))])
       ELSE Goto(self, "ensure", threads[self])
    /\ UNCHANGED <<games, heap, lock>>
    /\ Quiet

\* ensure_sufficient_deck(game, 1); if not game["deck"]: return dict(game)
HitEnsure(self, s) ==
    /\ threads[self].pc = "ensure"
    /\ \E w \in ensure_sufficient_deck(World, s, 1) :
        /\ InStore(w)
        /\ IF w.heap[w.games[s].deck] = <<>>
           THEN Goto(self, "exit", [threads[self] EXCEPT !.ret = RetDict(dict(w.games[s]))])
           ELSE Goto(self, "pop", threads[self])
    /\ UNCHANGED lock
    /\ Quiet

\* card = game["deck"].pop(0); on an empty list pop raises IndexError.
HitPop(self, s) ==
    /\ threads[self].pc = "pop"
    /\ IF heap[games[s].deck] = <<>>
       THEN /\ Goto(self, "exit", [threads[self] EXCEPT !.ret = [tag |-> "IndexError"]])
            /\ UNCHANGED <<games, heap>>
       ELSE /\ InStore(DeckPop(World, s).w)
            /\ Goto(self, "append", [threads[self] EXCEPT !.card = DeckPop(World, s).card])
    /\ UNCHANGED lock
    /\ Quiet

\* game["playerHand"].append(card)
HitAppend(self, s) ==
    /\ threads[self].pc = "append"
    /\ InStore(HandAppend(World, games[s].playerHand, threads[self].card))
    /\ Goto(self, "score", threads[self])
    /\ UNCHANGED lock
    /\ Quiet

\* calculate_score(game["playerHand"]): the value, not yet stored.
HitScore(self, s) ==
    /\ threads[self].pc = "score"
    /\ Goto(self, "store",
            [threads[self] EXCEPT !.score = calculate_score(heap[games[s].playerHand])])
    /\ UNCHANGED <<games, heap, lock>>
    /\ Quiet

\* game["playerScore"] = <that value>; game["lastActivity"] = time.time()
HitStore(self, s) ==
    /\ threads[self].pc = "store"
    /\ InStore(SetGame(World, s, [games[s] EXCEPT !.playerScore = threads[self].score,
                                                  !.lastActivity = now]))
    /\ Goto(self, "verdict", threads[self])
    /\ UNCHANGED lock
    /\ Quiet

\* The bust check: on to handle_round_over, or the message and the return
\* of dict(game).
HitBranch(self, s) ==
    /\ threads[self].pc = "verdict"
    /\ IF Busted(games[s])
       THEN /\ Goto(self, "settle", threads[self])
            /\ UNCHANGED <<games, heap>>
       ELSE /\ InStore(HitMessage(World, s).w)
            /\ Goto(self, "exit", [threads[self] EXCEPT !.ret = HitMessage(World, s).ret])
    /\ UNCHANGED lock
    /\ Quiet

\* return handle_round_over(session_id, "dealer", ...), which takes the
\* lock again and gives it back.
HitSettle(self, s) ==
    /\ threads[self].pc = "settle"
    /\ Acquirable(lock, self)
    /\ InStore(HitBust(World, s, now).w)
    /\ Goto(self, "exit", [threads[self] EXCEPT !.ret = HitBust(World, s, now).ret])
    /\ UNCHANGED lock
    /\ Quiet

\* The end of the with block: the lock is given back and hit returns.
HitExit(self) ==
    /\ threads[self].pc = "exit"
    /\ lock' = Release(lock, self)
    /\ Goto(self, "done", threads[self])
    /\ UNCHANGED <<games, heap>>
    /\ Quiet

ConcNext ==
    \E self \in Threads, s \in SessionIds :
        \/ HitEnter(self)
        \/ HitGuard(self, s)
        \/ HitEnsure(self, s)
        \/ HitPop(self, s)
        \/ HitAppend(self, s)
        \/ HitScore(self, s)
        \/ HitStore(self, s)
        \/ HitBranch(self, s)
        \/ HitSettle(self, s)
        \/ HitExit(self)

SpecConc == ConcInit /\ [][ConcNext]_vars

(***************************************************************************)
(* Rounds whose deck has run down (SpecDeck).  ensure_sufficient_deck       *)
(* reshuffles when the deck is shorter than the draw needs; the store       *)
(* starts empty or with a round in progress on such a deck, and the calls   *)
(* are those of Spec.                                                       *)
(***************************************************************************)
\* The hands and decks of the rounds in progress SpecDeck starts from.
LowPlayerHands ==
    {<<Card("5", "clubs"), Card("6", "clubs")>>,
     <<Card("10", "spades"), Card("6", "hearts")>>}

LowDealerHands ==
    {<<Card("2", "clubs"), Card("3", "clubs")>>,
     <<Card("10", "clubs"), Card("7", "clubs")>>,
     <<Card("A", "diamonds"), Card("5", "spades")>>}

LowDecks == {<<>>, <<Card("4", "spades")>>}

\* The record place_bet leaves for a bet of 3 and these hands, in progress.
LowDeckWorld(session_id, playerHand, dealerHand, deck) ==
    CheckBlackjack(
        Dealt(FreshGame([games |-> [s \in {} |-> 0], heap |-> [r \in {} |-> <<>>]],
                        session_id, 0),
              session_id, 3,
              [playerHand |-> playerHand, dealerHand |-> dealerHand, remaining_deck |-> deck],
              0,
              NewLists([r \in {} |-> <<>>], deck, dealerHand, playerHand)),
        session_id, FALSE, FALSE, 0).w

DeckInit ==
    /\ \/ /\ games = [s \in {} |-> 0]
          /\ heap = [r \in {} |-> <<>>]
          /\ deals = 0
       \/ \E playerHand \in LowPlayerHands, dealerHand \in LowDealerHands,
             deck \in LowDecks :
            /\ games = LowDeckWorld(CHOOSE s \in SessionIds : TRUE,
                                    playerHand, dealerHand, deck).games
            /\ heap = LowDeckWorld(CHOOSE s \in SessionIds : TRUE,
                                   playerHand, dealerHand, deck).heap
            /\ deals = MaxSnapDeals
    /\ now = 0
    /\ call = NoCall
    /\ ret = RetNone
    /\ held = RetNone
    /\ lock = Unlocked
    /\ threads = [i \in Threads |-> NewThread]
    /\ launch = [games |-> games, heap |-> heap]
    /\ app = AppUp
    /\ detector = NewDetector(now)

DeckNext ==
    \E s \in SessionIds :
        \/ InitializeGame(s)
        \/ GetGameState(s)
        \/ \E amount \in BetAmounts(s) : PlaceBetWithin(s, amount, MaxSnapDeals)
        \/ Hit(s)
        \/ Stand(s)
        \/ NewRound(s)
        \/ ResetGame(s)

SpecDeck == DeckInit /\ [][DeckNext]_vars

(***************************************************************************)
(* Dealing and shuffling (SpecDeal): one deal, hits, and calls of           *)
(* shuffle_deck on the list object that is the session's deck.              *)
(***************************************************************************)
\* shuffle_deck on the list object `deck` of heap h: deck_copy = deck.copy()
\* is a new list object, random.shuffle(deck_copy) changes it in place, and
\* it is returned.  The results: the heap and the reference returned.
shuffle_deck_copy(h, deck) ==
    {[heap |-> NewList(h, shuffled).heap, ref |-> NewList(h, shuffled).ref] :
        shuffled \in shuffle_deck(h[deck])}

\* A list returned to a caller, read out.
RetList(items) == [tag |-> "list", val |-> items]

ShuffleDeck(s) ==
    /\ s \in DOMAIN games
    /\ \E r \in shuffle_deck_copy(heap, games[s].deck) :
        Return("shuffle_deck", s, 0,
               Outcome([games |-> games, heap |-> r.heap], RetList(r.heap[r.ref])))
    /\ UNCHANGED deals

DealNext ==
    \E s \in SessionIds :
        \/ InitializeGame(s)
        \/ \E amount \in BetAmounts(s) : PlaceBetWithin(s, amount, MaxSnapDeals)
        \/ Hit(s)
        \/ ShuffleDeck(s)

SpecDeal == Init /\ [][DealNext]_vars

(***************************************************************************)
(* calculate_score on its own (SpecScore): the hand is any sequence of at   *)
(* most MaxHand ranks, and the one call is calculate_score(hand).           *)
(***************************************************************************)
\* The hand of the given ranks, the suits taken in turn.
HandOf(rs) ==
    [i \in 1..Len(rs) |-> Card(rs[i], suits[((i - 1) % Len(suits)) + 1])]

Hands == {HandOf(rs) : rs \in UNION {[1..n -> Range(ranks)] : n \in 0..MaxHand}}

RetInt(n) == [tag |-> "int", val |-> n]

ScoreInit ==
    /\ games = [s \in {} |-> 0]
    /\ heap = [r \in {} |-> <<>>]
    /\ now = 0
    /\ \E hand \in Hands : call = [op |-> "calculate_score", session_id |-> "", arg |-> hand]
    /\ ret = RetNone
    /\ held = RetNone
    /\ deals = 0
    /\ lock = Unlocked
    /\ threads = [i \in Threads |-> NewThread]
    /\ launch = [games |-> games, heap |-> heap]
    /\ app = AppUp
    /\ detector = NewDetector(now)

CalculateScore ==
    /\ ret = RetNone
    /\ ret' = RetInt(calculate_score(call.arg))
    /\ UNCHANGED <<games, heap, now, call, held, deals, lock, threads, launch, app, detector>>

SpecScore == ScoreInit /\ [][CalculateScore]_vars

(***************************************************************************)
(* First accesses at the same time (SpecFirst).  The store is empty and     *)
(* each thread makes one call for the same session: initialize_game, the    *)
(* route get_current_state (get_game_state, then initialize_game when it    *)
(* returned None), place_bet or new_round.  Each runs statement by          *)
(* statement; the threads interleave as the lock lets them.                 *)
(***************************************************************************)
FirstOps == {"initialize_game", "get_current_state", "place_bet", "new_round"}

\* The amount the place_bet callers bet.
FirstBet == 3

\* A thread about to make the call op.  `found` is what the test of
\* initialize_game found, `made` whether the thread has stored a new record.
FirstThread(op) ==
    [pc |-> IF op = "initialize_game" THEN "init_enter" ELSE "call",
     op |-> op, found |-> "untested", made |-> FALSE, ret |-> RetNone]

FirstInit ==
    /\ games = [s \in {} |-> 0]
    /\ heap = [r \in {} |-> <<>>]
    /\ now = 0
    /\ call = NoCall
    /\ ret = RetNone
    /\ held = RetNone
    /\ deals = 0
    /\ lock = Unlocked
    /\ \E ops \in [Threads -> FirstOps] : threads = [i \in Threads |-> FirstThread(ops[i])]
    /\ launch = [games |-> games, heap |-> heap]
    /\ app = AppUp
    /\ detector = NewDetector(now)

\* with _games_lock: of get_game_state, place_bet and new_round.
FirstEnter(self) ==
    /\ threads[self].pc = "call"
    /\ Acquirable(lock, self)
    /\ lock' = Acquire(lock, self)
    /\ Goto(self, "get", threads[self])
    /\ UNCHANGED <<games, heap>>
    /\ Quiet

\* game = _games.get(session_id) and the test that follows it.
FirstGet(self, s) ==
    /\ threads[self].pc = "get"
    /\ IF threads[self].op = "get_current_state"
       THEN /\ InStore(get_game_state(World, s, now).w)
            /\ Goto(self, "exit", [threads[self] EXCEPT !.ret = get_game_state(World, s, now).ret])
       ELSE /\ Goto(self, IF s \in DOMAIN games THEN "rest" ELSE "init_enter", threads[self])
            /\ UNCHANGED <<games, heap>>
    /\ UNCHANGED lock
    /\ Quiet

\* with _games_lock: of initialize_game.
InitEnter(self) ==
    /\ threads[self].pc = "init_enter"
    /\ Acquirable(lock, self)
    /\ lock' = Acquire(lock, self)
    /\ Goto(self, "check", threads[self])
    /\ UNCHANGED <<games, heap>>
    /\ Quiet

\* if session_id not in _games
InitCheck(self, s) ==
    /\ threads[self].pc = "check"
    /\ Goto(self, IF s \notin DOMAIN games THEN "create" ELSE "init_return",
            [threads[self] EXCEPT !.found =
                IF s \notin DOMAIN games THEN "absent" ELSE "present"])
    /\ UNCHANGED <<games, heap, lock>>
    /\ Quiet

\* _games[session_id] = {...}
InitCreate(self, s) ==
    /\ threads[self].pc = "create"
    /\ InStore(FreshGame(World, s, now))
    /\ Goto(self, "init_return", [threads[self] EXCEPT !.made = TRUE])
    /\ UNCHANGED lock
    /\ Quiet

\* return dict(_games[session_id]); the lock is given back.  The caller
\* goes on: place_bet validates and deals, new_round returns the dict.
InitReturn(self, s) ==
    /\ threads[self].pc = "init_return"
    /\ lock' = Release(lock, self)
    /\ Goto(self,
            CASE threads[self].op = "place_bet" -> "rest"
              [] threads[self].op = "new_round" -> "exit"
              [] OTHER -> "done",
            [threads[self] EXCEPT !.ret = RetDict(dict(games[s]))])
    /\ UNCHANGED <<games, heap>>
    /\ Quiet

\* place_bet from "Validate bet" on; new_round from player_money = ... on.
FirstRest(self, s) ==
    /\ threads[self].pc = "rest"
    /\ \E o \in IF threads[self].op = "place_bet"
                THEN PlaceBetOn(World, s, FirstBet, now)
                ELSE {NewRoundAt(World, s, now, NewLists(heap, <<>>, <<>>, <<>>))} :
        /\ InStore(o.w)
        /\ Goto(self, "exit", [threads[self] EXCEPT !.ret = o.ret])
    /\ UNCHANGED lock
    /\ Quiet

\* The end of the with block; get_current_state goes on to test `state`.
FirstExit(self) ==
    /\ threads[self].pc = "exit"
    /\ lock' = Release(lock, self)
    /\ Goto(self, IF threads[self].op = "get_current_state" THEN "route" ELSE "done",
            threads[self])
    /\ UNCHANGED <<games, heap>>
    /\ Quiet

\* get_current_state: if not state: state = initialize_game(session_id)
FirstRoute(self) ==
    /\ threads[self].pc = "route"
    /\ Goto(self, IF threads[self].ret = RetNone THEN "init_enter" ELSE "done", threads[self])
    /\ UNCHANGED <<games, heap, lock>>
    /\ Quiet

FirstNext ==
    \E self \in Threads, s \in SessionIds :
        \/ FirstEnter(self)
        \/ FirstGet(self, s)
        \/ InitEnter(self)
        \/ InitCheck(self, s)
        \/ InitCreate(self, s)
        \/ InitReturn(self, s)
        \/ FirstRest(self, s)
        \/ FirstExit(self)
        \/ FirstRoute(self)

SpecFirst == FirstInit /\ [][FirstNext]_vars

(***************************************************************************)
(* The session janitor and shutdown (SpecJanitor).  The clock counts hours. *)
(* Sessions are made and read while the server is up; session_cleanup_task  *)
(* sweeps every hour; shutdown cancels the task and sweeps with age 0.      *)
(* main.py runs on one event loop, so each of its steps is atomic.          *)
(***************************************************************************)
JanitorSessions == {"s1", "s2"}

\* The sessions untouched for longer than max_age_hours at time t.
Expired(gs, max_age_hours, t) ==
    {s \in DOMAIN gs : gs[s].lastActivity < t - max_age_hours}

\* cleanup_old_sessions(max_age_hours): every record whose lastActivity is
\* older than now - max age is removed; the count removed is returned.
cleanup_old_sessions(w, max_age_hours, t) ==
    Outcome([w EXCEPT !.games =
                [s \in DOMAIN w.games \ Expired(w.games, max_age_hours, t) |-> w.games[s]]],
            RetInt(Cardinality(Expired(w.games, max_age_hours, t))))

\* The sweep of session_cleanup_task is due: its sleep is over.
SweepDue == app.phase = "up" /\ app.task = "sleeping" /\ now >= app.wake

\* An hour passes.  The event loop runs a task whose sleep is over within
\* the hour, so no hour passes while the sweep is due.
Tick ==
    /\ now < MaxTime
    /\ ~ SweepDue
    /\ now' = now + 1
    /\ UNCHANGED <<games, heap, call, ret, held, deals, lock, threads, launch, app, detector>>

\* A request served while the server is up: the session is made.
ServeInitialize(s) ==
    /\ app.phase = "up"
    /\ InitializeGame(s)

\* A request served while the server is up: the session is read.
ServeState(s) ==
    /\ app.phase = "up"
    /\ GetGameState(s)

\* cleanup_old_sessions(max_age_hours) is called and main.py moves on.
Sweep(max_age_hours, app_after) ==
    /\ games' = cleanup_old_sessions(World, max_age_hours, now).w.games
    /\ heap' = Collect(heap, Roots(games', RetNone, held))
    /\ ret' = cleanup_old_sessions(World, max_age_hours, now).ret
    /\ call' = [op |-> "cleanup_old_sessions", session_id |-> "", arg |-> max_age_hours]
    /\ app' = app_after
    /\ UNCHANGED <<now, held, deals, lock, threads, launch, detector>>

\* session_cleanup_task: the sleep of an hour is over and the task sweeps.
JanitorSweep ==
    /\ SweepDue
    /\ Sweep(MaxAgeHours, [app EXCEPT !.wake = now + JanitorPeriod])

\* lifespan, shutdown: cleanup_task.cancel(); await cleanup_task.  The
\* server has stopped serving, and the await gives the event loop a turn:
\* when lifespan goes on, the clock reads later than at the last request.
CancelJanitor ==
    /\ app.phase = "up"
    /\ app' = [app EXCEPT !.phase = "stopping", !.task = "cancelled"]
    /\ now' = now + 1
    /\ UNCHANGED <<games, heap, call, ret, held, deals, lock, threads, launch, detector>>

\* FinalSweep with the max-age of the periodic sweep.
FinalSweepDayOld ==
    /\ app.phase = "stopping"
    /\ Sweep(MaxAgeHours, [app EXCEPT !.phase = "down"])

\* lifespan, shutdown: cleanup_old_sessions(max_age_hours=0)
FinalSweep ==
    /\ app.phase = "stopping"
    /\ Sweep(0, [app EXCEPT !.phase = "down"])

JanitorNext ==
    \/ Tick
    \/ \E s \in JanitorSessions : ServeInitialize(s) \/ ServeState(s)
    \/ JanitorSweep
    \/ CancelJanitor
    \/ FinalSweep

SpecJanitor == Init /\ [][JanitorNext]_vars

(***************************************************************************)
(* The gesture detector of backend/services/gesture_service.py.  Here the   *)
(* clock counts half seconds and a confidence is a number of hundredths.    *)
(***************************************************************************)
\* gesture_persistence_duration = 1.0
PersistenceTicks == 2

\* time_since_last * 0.1: the decay of half a second.
DecayPerTick == 5

\* max(0.1, ...)
FloorConfidence == 10

\* recent_same_gestures * 0.1
ConsistencyBoost == 10

\* min(..., 1.0)
FullConfidence == 100

max_history_length == 10

\* The keys of gesture_weights.
Gestures == {"idle", "hit", "stand"}

\* random.uniform(0.5, 0.8) for idle and random.uniform(0.7, 0.95) for the
\* others: the two ends of each range.
BaseConfidences(gesture) == IF gesture = "idle" THEN {50, 80} ELSE {70, 95}

Max(a, b) == IF a > b THEN a ELSE b

\* What detect_gesture returns.
RetGesture(gesture, confidence) ==
    [tag |-> "tuple", gesture |-> gesture, confidence |-> confidence]

IdleZero == RetGesture("idle", 0)

\* _calculate_smoothed_confidence
calculate_smoothed_confidence(d, base_confidence, gesture) ==
    IF d.gesture_history = <<>> THEN base_confidence
    ELSE Min(base_confidence
               + ConsistencyBoost
                   * Cardinality({i \in 1..Len(d.gesture_history) :
                                    /\ i > Len(d.gesture_history) - 3
                                    /\ d.gesture_history[i].gesture = gesture}),
             FullConfidence)

\* _update_gesture_history without the pop of the oldest entry.
update_gesture_history_keeping(d, gesture, confidence, t) ==
    IF d.resetting THEN d
    ELSE [d EXCEPT !.gesture_history =
            Append(@, [gesture |-> gesture, confidence |-> confidence,
                       timestamp |-> t])]

\* _update_gesture_history at time t
update_gesture_history(d, gesture, confidence, t) ==
    IF d.resetting THEN d
    ELSE [d EXCEPT !.gesture_history =
            IF Len(@) + 1 > max_history_length
            THEN Tail(Append(@, [gesture |-> gesture, confidence |-> confidence,
                                 timestamp |-> t]))
            ELSE Append(@, [gesture |-> gesture, confidence |-> confidence,
                            timestamp |-> t])]

\* Persisting for a detector that never holds a gesture.
PersistingNever(d, current_time) == FALSE

\* time_since_last < self.gesture_persistence_duration
Persisting(d, current_time) ==
    current_time - d.last_detection_time < PersistenceTicks

\* confidence_decay = max(0.1, self.gesture_confidence - (time_since_last * 0.1))
Decayed(d, current_time) ==
    Max(FloorConfidence,
        d.gesture_confidence - (current_time - d.last_detection_time) * DecayPerTick)

\* detect_gesture, "Update state"
Detected(d, gesture, confidence, current_time) ==
    [d EXCEPT !.last_gesture = gesture,
              !.gesture_confidence = confidence,
              !.last_detection_time = current_time]

\* The new detections detect_gesture can make of detector d at current_time,
\* the history being updated at time t: the detector and the value returned.
Detections(d, current_time, t) ==
    {[d |-> update_gesture_history(
                Detected(d, gesture,
                         calculate_smoothed_confidence(d, base_confidence, gesture),
                         current_time),
                gesture, calculate_smoothed_confidence(d, base_confidence, gesture), t),
      ret |-> RetGesture(gesture, calculate_smoothed_confidence(d, base_confidence, gesture))] :
        <<gesture, base_confidence>> \in
            UNION {{<<g, b>> : b \in BaseConfidences(g)} : g \in Gestures}}

\* detect_gesture called at time t while no other call is under way (the
\* lock is free): what it can leave and return.
detect_gesture(d, t) ==
    IF d.resetting THEN {[d |-> d, ret |-> IdleZero]}
    ELSE IF Persisting(d, t) THEN {[d |-> d, ret |-> RetGesture(d.last_gesture, Decayed(d, t))]}
    ELSE Detections(d, t, t)

\* reset, the four assignments of either path.
Cleared(d, t) ==
    [d EXCEPT !.last_gesture = "idle",
              !.gesture_confidence = 0,
              !.last_detection_time = t,
              !.gesture_history = <<>>]

\* reset called at time t while no other call is under way.
reset(d, t) == [Cleared(d, t) EXCEPT !.resetting = FALSE]

(***************************************************************************)
(* One detector call at a time (SpecDebounce).                              *)
(***************************************************************************)
\* Half a second passes.
ClockTick ==
    /\ now < MaxClock
    /\ now' = now + 1
    /\ UNCHANGED <<games, heap, call, ret, held, deals, lock, threads, launch, app, detector>>

DetectGesture ==
    /\ \E o \in detect_gesture(detector, now) :
        /\ detector' = o.d
        /\ ret' = o.ret
    /\ call' = [op |-> "detect_gesture", session_id |-> "", arg |-> now]
    /\ UNCHANGED <<games, heap, now, held, deals, lock, threads, launch, app>>

ResetDetector ==
    /\ detector' = reset(detector, now)
    /\ ret' = RetNone
    /\ call' = [op |-> "reset", session_id |-> "", arg |-> now]
    /\ UNCHANGED <<games, heap, now, held, deals, lock, threads, launch, app>>

DebounceNext == ClockTick \/ DetectGesture \/ ResetDetector

SpecDebounce == Init /\ [][DebounceNext]_vars

(***************************************************************************)
(* Threads calling the detector at the same time (SpecGesture).  Each       *)
(* thread makes the calls of its script, detect_gesture or reset, one after *)
(* the other and statement by statement.  lock.acquire(timeout=...) takes   *)
(* the lock when it is free and gives up once the timeout has passed.       *)
(***************************************************************************)
\* self.lock.acquire(timeout=1.0) in detect_gesture
DetectTimeoutTicks == 2

\* self.lock.acquire(timeout=2.0) in reset
ResetTimeoutTicks == 4

Scripts ==
    UNION {[1..n -> {"detect_gesture", "reset"}] : n \in 1..MaxCallsEach}

\* A thread with the calls of `script` to make.  During a call: current_time
\* and acquired are the locals of that name, `since` is when the thread
\* began to wait for the lock, ret is what the call returns.  Of a
\* detect_gesture call: `during` says that a reset was under way when it
\* started, `wrote` that it has changed the detector, `late` that a reset
\* had returned when it started; fresh_after says that the thread has made
\* a new detection in a call that was `late`.
GestureThread(script) ==
    [pc |-> "idle", script |-> script, at |-> 0,
     current_time |-> 0, acquired |-> FALSE, since |-> 0, ret |-> RetNone,
     during |-> FALSE, wrote |-> FALSE, late |-> FALSE, fresh_after |-> FALSE]

GestureInit ==
    /\ games = [s \in {} |-> 0]
    /\ heap = [r \in {} |-> <<>>]
    /\ now = 0
    /\ call = NoCall
    /\ ret = RetNone
    /\ held = RetNone
    /\ deals = 0
    /\ lock = Unlocked
    /\ \E scripts \in [Threads -> Scripts] :
        threads = [i \in Threads |-> GestureThread(scripts[i])]
    /\ launch = [games |-> games, heap |-> heap]
    /\ app = AppUp
    /\ detector = NewDetector(now)

\* The call the thread makes next, if any.
NextCall(self) ==
    IF threads[self].at < Len(threads[self].script)
    THEN threads[self].script[threads[self].at + 1]
    ELSE "none"

\* A reset call has set the flag and has not returned.
ResetInFlight ==
    \E t \in Threads : threads[t].pc \in {"r_acquire", "r_clear", "r_release", "r_unflag"}

\* A reset call has returned.
ResetReturned ==
    \E t \in Threads : \E i \in 1..threads[t].at :
        /\ threads[t].script[i] = "reset"
        /\ i < threads[t].at \/ threads[t].pc = "idle"

Still == UNCHANGED <<games, heap, now, call, ret, held, deals, lock, launch, app>>

\* detect_gesture is called: if self._resetting: return "idle", 0.0
DetectStart(self) ==
    /\ threads[self].pc = "idle"
    /\ NextCall(self) = "detect_gesture"
    /\ Goto(self, IF detector.resetting THEN "idle" ELSE "d_time",
            [threads[self] EXCEPT !.at = @ + 1,
                                  !.ret = IF detector.resetting THEN IdleZero ELSE RetNone,
                                  !.during = ResetInFlight,
                                  !.late = ResetReturned,
                                  !.wrote = FALSE])
    /\ UNCHANGED detector
    /\ Still

\* current_time = time.time(); the call of lock.acquire begins
DetectTime(self) ==
    /\ threads[self].pc = "d_time"
    /\ Goto(self, "d_acquire", [threads[self] EXCEPT !.current_time = now, !.since = now])
    /\ UNCHANGED detector
    /\ Still

\* lock_acquired = self.lock.acquire(timeout=1.0)
DetectAcquire(self) ==
    /\ threads[self].pc = "d_acquire"
    /\ IF detector.lock = 0
       THEN /\ detector' = [detector EXCEPT !.lock = self]
            /\ Goto(self, "d_check", [threads[self] EXCEPT !.acquired = TRUE])
       ELSE /\ now - threads[self].since >= DetectTimeoutTicks
            /\ Goto(self, "d_check", [threads[self] EXCEPT !.acquired = FALSE])
            /\ UNCHANGED detector
    /\ Still

\* if not lock_acquired or self._resetting: return "idle", 0.0
\* (this return is before the try: a lock that was acquired stays locked)
DetectCheck(self) ==
    /\ threads[self].pc = "d_check"
    /\ IF ~ threads[self].acquired \/ detector.resetting
       THEN Goto(self, "idle", [threads[self] EXCEPT !.ret = IdleZero])
       ELSE Goto(self, "d_recheck", threads[self])
    /\ UNCHANGED detector
    /\ Still

\* try: if self._resetting: return "idle", 0.0
DetectRecheck(self) ==
    /\ threads[self].pc = "d_recheck"
    /\ IF detector.resetting
       THEN Goto(self, "d_release", [threads[self] EXCEPT !.ret = IdleZero])
       ELSE Goto(self, "d_window", threads[self])
    /\ UNCHANGED detector
    /\ Still

\* if time_since_last < self.gesture_persistence_duration: return ...
DetectWindow(self) ==
    /\ threads[self].pc = "d_window"
    /\ IF Persisting(detector, threads[self].current_time)
       THEN Goto(self, "d_release",
                 [threads[self] EXCEPT !.ret =
                    RetGesture(detector.last_gesture,
                               Decayed(detector, threads[self].current_time))])
       ELSE Goto(self, "d_update", threads[self])
    /\ UNCHANGED detector
    /\ Still

\* random.choices, random.uniform, the smoothing, and "Update state"
DetectUpdate(self) ==
    /\ threads[self].pc = "d_update"
    /\ \E gesture \in Gestures : \E base_confidence \in BaseConfidences(gesture) :
        /\ detector' = Detected(detector, gesture,
                                calculate_smoothed_confidence(detector, base_confidence, gesture),
                                threads[self].current_time)
        /\ Goto(self, "d_history",
                [threads[self] EXCEPT
                    !.ret = RetGesture(gesture,
                              calculate_smoothed_confidence(detector, base_confidence, gesture)),
                    !.wrote = TRUE,
                    !.fresh_after = @ \/ threads[self].late])
    /\ Still

\* self._update_gesture_history(detected_gesture, final_confidence)
DetectHistory(self) ==
    /\ threads[self].pc = "d_history"
    /\ detector' = update_gesture_history(detector, threads[self].ret.gesture,
                                          threads[self].ret.confidence, now)
    /\ Goto(self, "d_release", threads[self])
    /\ Still

\* finally: self.lock.release(), and the call returns
DetectRelease(self) ==
    /\ threads[self].pc = "d_release"
    /\ detector' = [detector EXCEPT !.lock = 0]
    /\ Goto(self, "idle", threads[self])
    /\ Still

\* reset is called: self._resetting = True; the call of lock.acquire begins
ResetFlag(self) ==
    /\ threads[self].pc = "idle"
    /\ NextCall(self) = "reset"
    /\ detector' = [detector EXCEPT !.resetting = TRUE]
    /\ Goto(self, "r_acquire",
            [threads[self] EXCEPT !.at = @ + 1, !.since = now, !.ret = RetNone])
    /\ Still

\* lock_acquired = self.lock.acquire(timeout=2.0)
ResetAcquire(self) ==
    /\ threads[self].pc = "r_acquire"
    /\ IF detector.lock = 0
       THEN /\ detector' = [detector EXCEPT !.lock = self]
            /\ Goto(self, "r_clear", [threads[self] EXCEPT !.acquired = TRUE])
       ELSE /\ now - threads[self].since >= ResetTimeoutTicks
            /\ Goto(self, "r_clear", [threads[self] EXCEPT !.acquired = FALSE])
            /\ UNCHANGED detector
    /\ Still

\* The four assignments, with the lock or forced.
ResetClear(self) ==
    /\ threads[self].pc = "r_clear"
    /\ detector' = Cleared(detector, now)
    /\ Goto(self, IF threads[self].acquired THEN "r_release" ELSE "r_unflag", threads[self])
    /\ Still

\* finally: self.lock.release()
ResetRelease(self) ==
    /\ threads[self].pc = "r_release"
    /\ detector' = [detector EXCEPT !.lock = 0]
    /\ Goto(self, "r_unflag", threads[self])
    /\ Still

\* finally: self._resetting = False, and the call returns
ResetUnflag(self) ==
    /\ threads[self].pc = "r_unflag"
    /\ detector' = [detector EXCEPT !.resetting = FALSE]
    /\ Goto(self, "idle", threads[self])
    /\ Still

GestureNext ==
    \/ ClockTick
    \/ \E self \in Threads :
        \/ DetectStart(self)
        \/ DetectTime(self)
        \/ DetectAcquire(self)
        \/ DetectCheck(self)
        \/ DetectRecheck(self)
        \/ DetectWindow(self)
        \/ DetectUpdate(self)
        \/ DetectHistory(self)
        \/ DetectRelease(self)
        \/ ResetFlag(self)
        \/ ResetAcquire(self)
        \/ ResetClear(self)
        \/ ResetRelease(self)
        \/ ResetUnflag(self)

SpecGesture == GestureInit /\ [][GestureNext]_vars

(***************************************************************************)
(* get_gesture_statistics while another thread calls the detector           *)
(* (SpecStats).  Thread 1 makes one call of get_gesture_statistics,         *)
(* statement by statement; the other threads make the calls of their        *)
(* scripts as in SpecGesture.  `history` in get_gesture_statistics is the   *)
(* list object of the detector itself, not a copy: each statement reads     *)
(* what the list holds when the statement runs.  The average and the rate   *)
(* are kept as the numbers they are computed from (round is not modelled).  *)
(***************************************************************************)
\* sum(h["confidence"] for h in history)
RECURSIVE SumConfidence(_)
SumConfidence(history) ==
    IF history = <<>> THEN 0
    ELSE Head(history).confidence + SumConfidence(Tail(history))

\* gesture_counts after the loop over history: gesture -> how often.
GestureCounts(history) ==
    [g \in {history[i].gesture : i \in 1..Len(history)} |->
        Cardinality({i \in 1..Len(history) : history[i].gesture = g})]

\* max(gesture_counts, key=gesture_counts.get) for the counts of `history`:
\* the keys are in the order of their first entry, the first maximum wins.
MostCommon(history) ==
    history[MinOf({i \in 1..Len(history) :
                    \A j \in 1..Len(history) :
                        GestureCounts(history)[history[i].gesture]
                            >= GestureCounts(history)[history[j].gesture]})].gesture

\* The dict returned for an empty history.
NoStatistics ==
    [tag |-> "stats", total_detections |-> 0, confidence_sum |-> 0,
     most_common_gesture |-> "idle", time_span |-> 0,
     gesture_distribution |-> GestureCounts(<<>>)]

\* The dict returned otherwise, from the values of the local variables;
\* time_span is 0 where the rate is set to 0.0.
Statistics(total_detections, confidence_sum, counts, most_common_gesture, time_span) ==
    [tag |-> "stats", total_detections |-> total_detections,
     confidence_sum |-> confidence_sum,
     most_common_gesture |-> most_common_gesture, time_span |-> time_span,
     gesture_distribution |-> counts]

\* What the call raises.
Raised(error) == [tag |-> "raise", error |-> error]

\* The thread that calls get_gesture_statistics: the thread of SpecGesture
\* with the local variables of that call, and `seen`, what the history held
\* at each statement that read it.
StatsThread ==
    [pc |-> "idle", script |-> <<"get_gesture_statistics">>, at |-> 0,
     current_time |-> 0, acquired |-> FALSE, since |-> 0, ret |-> RetNone,
     during |-> FALSE, wrote |-> FALSE, late |-> FALSE, fresh_after |-> FALSE,
     total_detections |-> 0, confidence_sum |-> 0, most_common_gesture |-> "idle",
     counts |-> GestureCounts(<<>>), seen |-> <<>>]

StatsInit ==
    /\ games = [s \in {} |-> 0]
    /\ heap = [r \in {} |-> <<>>]
    /\ now = 0
    /\ call = NoCall
    /\ ret = RetNone
    /\ held = RetNone
    /\ deals = 0
    /\ lock = Unlocked
    /\ \E scripts \in [Threads \ {1} -> Scripts] :
        threads = [i \in Threads |->
                    IF i = 1 THEN StatsThread ELSE GestureThread(scripts[i])]
    /\ launch = [games |-> games, heap |-> heap]
    /\ app = AppUp
    /\ detector = NewDetector(now)

\* history = _gesture_detector.gesture_history; if not history: return {...}
StatsStart(self) ==
    /\ threads[self].pc = "idle"
    /\ NextCall(self) = "get_gesture_statistics"
    /\ IF detector.gesture_history = <<>>
       THEN Goto(self, "idle",
                 [threads[self] EXCEPT !.at = @ + 1, !.ret = NoStatistics,
                                       !.seen = <<detector.gesture_history>>])
       ELSE Goto(self, "s_len",
                 [threads[self] EXCEPT !.at = @ + 1,
                                       !.seen = <<detector.gesture_history>>])
    /\ UNCHANGED detector
    /\ Still

\* total_detections = len(history)
StatsLen(self) ==
    /\ threads[self].pc = "s_len"
    /\ Goto(self, "s_sum",
            [threads[self] EXCEPT !.total_detections = Len(detector.gesture_history),
                                  !.seen = Append(@, detector.gesture_history)])
    /\ UNCHANGED detector
    /\ Still

\* average_confidence = sum(h["confidence"] for h in history) / total_detections
\* (a division by 0 raises ZeroDivisionError)
StatsSum(self) ==
    /\ threads[self].pc = "s_sum"
    /\ IF threads[self].total_detections = 0
       THEN Goto(self, "idle", [threads[self] EXCEPT !.ret = Raised("ZeroDivisionError")])
       ELSE Goto(self, "s_counts",
                 [threads[self] EXCEPT
                    !.confidence_sum = SumConfidence(detector.gesture_history),
                    !.seen = Append(@, detector.gesture_history)])
    /\ UNCHANGED detector
    /\ Still

\* gesture_counts = {}; for h in history: ...
StatsCounts(self) ==
    /\ threads[self].pc = "s_counts"
    /\ Goto(self, "s_max",
            [threads[self] EXCEPT !.counts = GestureCounts(detector.gesture_history),
                                  !.most_common_gesture =
                                      IF detector.gesture_history = <<>> THEN "idle"
                                      ELSE MostCommon(detector.gesture_history),
                                  !.seen = Append(@, detector.gesture_history)])
    /\ UNCHANGED detector
    /\ Still

\* most_common_gesture = max(gesture_counts, key=gesture_counts.get): max of
\* an empty dict raises ValueError.
StatsMax(self) ==
    /\ threads[self].pc = "s_max"
    /\ IF DOMAIN threads[self].counts = {}
       THEN Goto(self, "idle", [threads[self] EXCEPT !.ret = Raised("ValueError")])
       ELSE Goto(self, "s_span", threads[self])
    /\ UNCHANGED detector
    /\ Still

\* if len(history) >= 2: ... else: detection_rate = 0.0; return {...}
StatsSpan(self) ==
    /\ threads[self].pc = "s_span"
    /\ IF Len(detector.gesture_history) >= 2
       THEN Goto(self, "s_stamps",
                 [threads[self] EXCEPT !.seen = Append(@, detector.gesture_history)])
       ELSE Goto(self, "idle",
                 [threads[self] EXCEPT
                    !.ret = Statistics(threads[self].total_detections,
                                       threads[self].confidence_sum,
                                       threads[self].counts,
                                       threads[self].most_common_gesture, 0),
                    !.seen = Append(@, detector.gesture_history)])
    /\ UNCHANGED detector
    /\ Still

\* time_span = history[-1]["timestamp"] - history[0]["timestamp"]; return {...}
\* (an index into an empty list raises IndexError)
StatsStamps(self) ==
    /\ threads[self].pc = "s_stamps"
    /\ IF detector.gesture_history = <<>>
       THEN Goto(self, "idle", [threads[self] EXCEPT !.ret = Raised("IndexError")])
       ELSE Goto(self, "idle",
                 [threads[self] EXCEPT
                    !.ret = Statistics(
                        threads[self].total_detections,
                        threads[self].confidence_sum,
                        threads[self].counts,
                        threads[self].most_common_gesture,
                        detector.gesture_history[Len(detector.gesture_history)].timestamp
                            - detector.gesture_history[1].timestamp),
                    !.seen = Append(@, detector.gesture_history)])
    /\ UNCHANGED detector
    /\ Still

StatsNext ==
    \/ GestureNext
    \/ \E self \in Threads :
        \/ StatsStart(self)
        \/ StatsLen(self)
        \/ StatsSum(self)
        \/ StatsCounts(self)
        \/ StatsMax(self)
        \/ StatsSpan(self)
        \/ StatsStamps(self)

SpecStats == StatsInit /\ [][StatsNext]_vars

(***************************************************************************)
(* get_current_gesture while another thread calls the detector             *)
(* (SpecCurrent).  Thread 1 makes one call of get_current_gesture: the      *)
(* call of detect_gesture, statement by statement as in SpecGesture, then   *)
(* the dict built from the pair it returned and from is_confident_gesture,  *)
(* which reads the detector's fields as they are at that moment.  The other *)
(* threads make the calls of their scripts as in SpecGesture.               *)
(***************************************************************************)
\* min_confidence: float = 0.8, the default of is_confident_gesture
DefaultMinConfidence == 80

\* self.min_confidence_threshold = 0.6
min_confidence_threshold == 60

\* is_confident_gesture() of detector d
is_confident_gesture(d) ==
    /\ d.gesture_confidence >= DefaultMinConfidence
    /\ d.last_gesture # "idle"
    /\ d.gesture_confidence >= min_confidence_threshold

\* The dict get_current_gesture returns: the three entries the callers act on.
CurrentGesture(gesture, confidence, is_confident) ==
    [tag |-> "current", gesture |-> gesture, confidence |-> confidence,
     is_confident |-> is_confident]

\* The body of get_current_gesture as the calls it makes.
CurrentScript == <<"detect_gesture", "is_confident_gesture">>

CurrentInit ==
    /\ games = [s \in {} |-> 0]
    /\ heap = [r \in {} |-> <<>>]
    /\ now = 0
    /\ call = NoCall
    /\ ret = RetNone
    /\ held = RetNone
    /\ deals = 0
    /\ lock = Unlocked
    /\ \E scripts \in [Threads \ {1} -> Scripts] :
        threads = [i \in Threads |->
                    GestureThread(IF i = 1 THEN CurrentScript ELSE scripts[i])]
    /\ launch = [games |-> games, heap |-> heap]
    /\ app = AppUp
    /\ detector = NewDetector(now)

\* Half a second passes.
CurrentTick ==
    /\ now < MaxCurrentClock
    /\ now' = now + 1
    /\ UNCHANGED <<games, heap, call, ret, held, deals, lock, threads, launch, app, detector>>

\* return {"gesture": gesture, "confidence": confidence,
\*         "is_confident": _gesture_detector.is_confident_gesture(), ...}
CurrentReturn(self) ==
    /\ threads[self].pc = "idle"
    /\ NextCall(self) = "is_confident_gesture"
    /\ Goto(self, "idle",
            [threads[self] EXCEPT
                !.at = @ + 1,
                !.ret = CurrentGesture(threads[self].ret.gesture,
                                       threads[self].ret.confidence,
                                       is_confident_gesture(detector))])
    /\ UNCHANGED detector
    /\ Still

CurrentNext ==
    \/ CurrentTick
    \/ \E self \in Threads :
        \/ DetectStart(self)
        \/ DetectTime(self)
        \/ DetectAcquire(self)
        \/ DetectCheck(self)
        \/ DetectRecheck(self)
        \/ DetectWindow(self)
        \/ DetectUpdate(self)
        \/ DetectHistory(self)
        \/ DetectRelease(self)
        \/ ResetFlag(self)
        \/ ResetAcquire(self)
        \/ ResetClear(self)
        \/ ResetRelease(self)
        \/ ResetUnflag(self)
        \/ CurrentReturn(self)

SpecCurrent == CurrentInit /\ [][CurrentNext]_vars

(***************************************************************************)
(* The history when it is full (SpecRolling): one detector call at a time   *)
(* as in SpecDebounce, on a detector that has already made nine or ten      *)
(* detections, one second apart from its construction on.                   *)
(***************************************************************************)
\* One detection of detector d at time t, outside the persistence window:
\* hit, with the lower end of its range as the base confidence.
FillOne(d, t) ==
    (CHOOSE o \in detect_gesture(d, t) :
        /\ o.ret.gesture = "hit"
        /\ \A p \in detect_gesture(d, t) :
            p.ret.gesture = "hit" => o.ret.confidence <= p.ret.confidence).d

\* The detector constructed at time 0 after n such detections, the last at
\* time PersistenceTicks * n.
RECURSIVE Filled(_)
Filled(n) ==
    IF n = 0 THEN NewDetector(0)
    ELSE FillOne(Filled(n - 1), PersistenceTicks * n)

\* How many detections have been made when the specification starts.
RollFills == (max_history_length - 1)..max_history_length

RollInit ==
    /\ games = [s \in {} |-> 0]
    /\ heap = [r \in {} |-> <<>>]
    /\ \E n \in RollFills :
        /\ now = PersistenceTicks * n
        /\ detector = Filled(n)
    /\ call = NoCall
    /\ ret = RetNone
    /\ held = RetNone
    /\ deals = 0
    /\ lock = Unlocked
    /\ threads = [i \in Threads |-> NewThread]
    /\ launch = [games |-> games, heap |-> heap]
    /\ app = AppUp

\* Half a second passes.
RollTick ==
    /\ now < PersistenceTicks * max_history_length + MaxClock
    /\ now' = now + 1
    /\ UNCHANGED <<games, heap, call, ret, held, deals, lock, threads, launch, app, detector>>

RollNext == RollTick \/ DetectGesture \/ ResetDetector

SpecRolling == RollInit /\ [][RollNext]_vars

(***************************************************************************)
(* The comparison of decide_winner on its own (SpecWinner): the calls of    *)
(* the engine, one deal at most, and the comparison applied to any pair of  *)
(* scores near 21.                                                          *)
(***************************************************************************)
Scores == (21 - MaxOver)..(21 + MaxOver)

RetVerdict(d) == [tag |-> "verdict", val |-> d]

\* player_score, dealer_score = ...; the if/elif chain of decide_winner
CompareScores(player_score, dealer_score) ==
    /\ call' = [op |-> "WinnerOf", session_id |-> "", arg |-> <<player_score, dealer_score>>]
    /\ ret' = RetVerdict(WinnerOf(player_score, dealer_score))
    /\ heap' = Collect(heap, Roots(games, ret', held))
    /\ UNCHANGED <<games, now, held, deals, lock, threads, launch, app, detector>>

WinnerNext ==
    \/ \E player_score, dealer_score \in Scores : CompareScores(player_score, dealer_score)
    \/ DeckNext

SpecWinner == Init /\ [][WinnerNext]_vars

(***************************************************************************)
(* The engine on a running clock (SpecTouch): the calls of the engine, one  *)
(* deal at most, and time passing between them.                             *)
(***************************************************************************)
TouchNext == ClockTick \/ DeckNext

SpecTouch == Init /\ [][TouchNext]_vars

(***************************************************************************)
(* Properties of the sequential engine (Spec).  A step of Spec is one call: *)
(* call' names it, the unprimed variables are the state it found.           *)
(***************************************************************************)
\* Every record with its three lists read out.
Records == [s \in DOMAIN games |-> Content(heap, games[s])]

PhaseOf(gs, s) == IF s \in DOMAIN gs THEN gs[s].gameState ELSE "absent"

Calls(ops, s) == call'.op \in ops /\ call'.session_id = s

\* What C1 asks of a step.
C1_Step ==
    \A s \in SessionIds :
        (/\ Calls({"hit", "stand"}, s)
         /\ s \in DOMAIN games
         /\ games[s].gameState \in {"idle", "round_over"})
        => /\ Records'[s] = Records[s]
           /\ games'[s] = games[s]
           /\ ret' = RetDict(games[s])

\* C1: a hit or a stand on a session whose phase is idle or round_over is
\* turned down: the call deals nothing and returns the record as it is, and
\* every field of the record (deck, both hands, both scores, bet, playerMoney,
\* phase, winner, isBlackjack, the three counters) is as before the call.
C1_WrongPhaseRejected == [][C1_Step]_vars

\* A hit was the last call, on a round a natural had already ended.
C1_Witness ==
    /\ call.op = "hit"
    /\ call.session_id \in DOMAIN games
    /\ games[call.session_id].gameState = "round_over"
    /\ games[call.session_id].isBlackjack
    /\ Len(heap[games[call.session_id].playerHand]) = 2

\* What C2 asks of a step.
C2_Step ==
    \A s \in SessionIds :
        /\ (PhaseOf(games, s) /= "absent" /\ PhaseOf(games', s) /= PhaseOf(games, s))
            => \/ /\ Calls({"place_bet"}, s)
                  /\ PhaseOf(games, s) = "idle"
                  /\ PhaseOf(games', s) \in {"in_progress", "round_over"}
               \/ /\ Calls({"hit", "stand"}, s)
                  /\ PhaseOf(games, s) = "in_progress"
                  /\ PhaseOf(games', s) = "round_over"
               \/ /\ Calls({"new_round", "reset_game"}, s)
                  /\ PhaseOf(games', s) = "idle"
        /\ (Calls({"place_bet"}, s) /\ ret'.tag = "dict")
            => PhaseOf(games, s) \in {"idle", "absent"}

\* C2: every change of phase is placeBet taking idle to in_progress or to
\* round_over, hit or stand taking in_progress to round_over, or newRound or
\* fullReset taking the session to idle; and no placeBet that deals finds
\* the session in phase in_progress or round_over.
C2_PhaseTransitions == [][C2_Step]_vars

\* The worlds n calls of hit, one after the other, can leave.
RECURSIVE HitTimes(_, _, _)
HitTimes(w, s, n) ==
    IF n = 0 THEN {w}
    ELSE UNION {HitTimes(o.w, s, n - 1) : o \in hit(w, s, now)}

AllReturned == \A i \in Threads : threads[i].pc = "done"

\* The threads whose hit drew a card.
Accepted == {i \in Threads : threads[i].card /= NoCard}

\* C3: when NumThreads concurrent hit calls on one session have all
\* returned, the record is what that many hit calls made one after the other
\* leave: the player's hand has grown by one card per accepted hit, the
\* cards are the first of the deck in their order (none twice, none lost),
\* and playerScore is the score of the final hand.
C3_ConcurrentHitsSerial ==
    AllReturned =>
        \A s \in SessionIds :
            LET final == Content(heap, games[s])
                first == Content(launch.heap, launch.games[s])
                k == Cardinality(Accepted)
            IN  /\ final \in {Content(w.heap, w.games[s]) :
                                w \in HitTimes(launch, s, NumThreads)}
                /\ final.playerHand = first.playerHand \o SubSeq(first.deck, 1, k)
                /\ final.deck = SubSeq(first.deck, k + 1, Len(first.deck))
                /\ final.playerScore = calculate_score(final.playerHand)

\* Every thread has returned and every hit drew a card.
C3_Witness ==
    /\ AllReturned
    /\ Accepted = Threads
    /\ \A s \in SessionIds : Len(heap[games[s].playerHand]) = 2 + NumThreads

\* C4: a dict an operation returned reads, after any later operations on the
\* session, what it read when it was returned: its deck, hands and scores.
C4_SnapshotImmutable ==
    held.tag = "dict" => Content(heap, held.val) = held.seen

\* The two halves of C5, of a step.
C5_Rejects(s) ==
    (/\ Calls({"place_bet"}, s)
     /\ s \in DOMAIN games
     /\ (call'.arg < 1 \/ call'.arg > games[s].playerMoney))
    => /\ ret' = RetNone
       /\ games'[s] = games[s]
       /\ Records'[s] = Records[s]

C5_AcceptsBalance(s) ==
    (/\ Calls({"place_bet"}, s)
     /\ s \in DOMAIN games
     /\ call'.arg = games[s].playerMoney)
    => /\ ret'.tag = "dict"
       /\ games'[s].bet = games[s].playerMoney
       /\ ret'.val.bet = games[s].playerMoney

\* C5 (as stated): with balance b, placeBet of an amount below 1 or above b
\* is rejected and leaves the record as it was; placeBet of b succeeds and
\* leaves bet = b.
C5_AsStated ==
    [][\A s \in SessionIds : C5_Rejects(s) /\ C5_AcceptsBalance(s)]_vars

\* C5 (amended): with balance b, placeBet of an amount below 1 or above b is
\* rejected and leaves the record as it was; placeBet of b succeeds and
\* leaves bet = b when b >= 1.
C5_BetBounds ==
    [][\A s \in SessionIds :
        /\ C5_Rejects(s)
        /\ (s \in DOMAIN games /\ games[s].playerMoney >= 1) => C5_AcceptsBalance(s)]_vars

\* The whole balance was bet, after a round had changed it, and accepted.
C5_Witness ==
    /\ call.op = "place_bet"
    /\ call.session_id \in DOMAIN games
    /\ call.arg = 1007
    /\ ret.tag = "dict"
    /\ games[call.session_id].bet = 1007
    /\ games[call.session_id].playerMoney >= 1007

\* What C6 asks of a step.
C6_Step ==
    \A s \in SessionIds :
        (/\ Calls({"hit"}, s)
         /\ s \in DOMAIN games
         /\ games[s].gameState = "in_progress"
         /\ calculate_score(heap'[games'[s].playerHand]) > 21)
        => /\ games'[s].gameState = "round_over"
           /\ games'[s].winner = "dealer"
           /\ games'[s].playerMoney = games[s].playerMoney - games[s].bet
           /\ games'[s].roundsLost = games[s].roundsLost + 1
           /\ games'[s].bet = games[s].bet

\* C6: a hit in phase in_progress that brings the player's hand above 21
\* leaves the session in round_over with winner dealer, playerMoney lower by
\* the bet and roundsLost higher by one.
C6_BustSettles == [][C6_Step]_vars

\* A hit was the last call and took the player's hand to 22 exactly.
C6_Witness ==
    /\ call.op = "hit"
    /\ call.session_id \in DOMAIN games
    /\ calculate_score(heap[games[call.session_id].playerHand]) = 22
    /\ games[call.session_id].gameState = "round_over"
    /\ games[call.session_id].bet = 3
    /\ games[call.session_id].playerMoney = StartingMoney - 3

\* The step is a call that settles s's round: a placeBet that deals, or a
\* hit or stand in phase in_progress, ending in round_over.
Settles(s) ==
    /\ call'.session_id = s
    /\ PhaseOf(games', s) = "round_over"
    /\ \/ call'.op = "place_bet" /\ ret'.tag = "dict"
       \/ call'.op \in {"hit", "stand"} /\ PhaseOf(games, s) = "in_progress"

\* What C7 asks of a step.
C7_Step ==
    \A s \in SessionIds :
        Settles(s) =>
            LET g == games'[s]
                hand == heap'[g.playerHand]
                natural == Len(hand) = 2 /\ calculate_score(hand) = 21
                change == g.playerMoney - Balance(s)
            IN  /\ g.winner \in {"player", "dealer", "push"}
                /\ (g.winner = "player" /\ natural) => change = g.bet + (g.bet * 15) \div 10
                /\ (g.winner = "player" /\ ~ natural) => change = 2 * g.bet
                /\ g.winner = "dealer" => change = - g.bet
                /\ g.winner = "push" => change = 0

\* C7: settlement changes playerMoney by bet + floor(1.5 * bet) when the
\* player wins with a two-card natural, by 2 * bet when the player wins
\* without one, by -bet when the dealer wins, and by 0 on a push.
C7_Payouts == [][C7_Step]_vars

\* A natural won on an odd bet: 3 pays 3 + 4.
C7_Witness ==
    /\ call.op = "place_bet"
    /\ call.session_id \in DOMAIN games
    /\ games[call.session_id].winner = "player"
    /\ is_blackjack(heap[games[call.session_id].playerHand])
    /\ games[call.session_id].bet = 3
    /\ games[call.session_id].playerMoney = StartingMoney + 7

\* What C8 asks of a step.
C8_Step ==
    \A s \in SessionIds :
        (Calls({"place_bet"}, s) /\ ret'.tag = "dict") =>
            LET g == games'[s]
                player == heap'[g.playerHand]
                dealer == heap'[g.dealerHand]
                pn == Len(player) = 2 /\ calculate_score(player) = 21
                dn == Len(dealer) = 2 /\ calculate_score(dealer) = 21
            IN  /\ ret'.val = g
                /\ Len(player) = 2 /\ Len(dealer) = 2
                /\ (pn /\ dn) => (g.gameState = "round_over" /\ g.winner = "push")
                /\ (pn /\ ~ dn) => (g.gameState = "round_over" /\ g.winner = "player")
                /\ (~ pn /\ dn) => (g.gameState = "round_over" /\ g.winner = "dealer")
                /\ (~ pn /\ ~ dn) =>
                    (g.gameState = "in_progress" /\ g.winner = None /\ ~ g.isBlackjack)

\* C8: a placeBet that deals a natural settles the round in that call (both
\* natural: push; player only: player; dealer only: dealer) and ends in
\* round_over; with no natural it ends in in_progress with winner unset and
\* isBlackjack false.
C8_NaturalsSettle == [][C8_Step]_vars

\* A placeBet dealt a natural to both sides.
C8_Witness ==
    /\ call.op = "place_bet"
    /\ call.session_id \in DOMAIN games
    /\ ret.tag = "dict"
    /\ is_blackjack(heap[games[call.session_id].playerHand])
    /\ is_blackjack(heap[games[call.session_id].dealerHand])
    /\ games[call.session_id].winner = "push"

\* What C9 asks of a step.
C9_Step ==
    \A s \in SessionIds :
        (Calls({"new_round"}, s) /\ s \in DOMAIN games) =>
            LET g == Records'[s]
            IN  /\ g.playerMoney = games[s].playerMoney
                /\ g.roundsWon = games[s].roundsWon
                /\ g.roundsLost = games[s].roundsLost
                /\ g.roundsPushed = games[s].roundsPushed
                /\ g.deck = <<>> /\ g.playerHand = <<>> /\ g.dealerHand = <<>>
                /\ g.playerScore = 0 /\ g.dealerScore = 0
                /\ g.bet = 0
                /\ g.winner = None
                /\ ~ g.isBlackjack
                /\ g.gameState = "idle"

\* C9: newRound on an existing session, in any phase, leaves playerMoney and
\* the three counters as they were, and leaves deck and hands empty, both
\* scores 0, bet 0, winner unset, isBlackjack false and phase idle.
C9_NewRoundKeepsTotals == [][C9_Step]_vars

\* newRound was the last call, after a round the player had won.
C9_Witness ==
    /\ call.op = "new_round"
    /\ call.session_id \in DOMAIN games
    /\ games[call.session_id].roundsWon = 1
    /\ games[call.session_id].playerMoney > StartingMoney
    /\ games[call.session_id].gameState = "idle"

\* What C10 asks of a step.
C10_Step ==
    \A s \in SessionIds :
        Calls({"reset_game"}, s) =>
            /\ s \in DOMAIN games'
            /\ LET g == Records'[s]
               IN  /\ g.playerMoney = 1000
                   /\ g.roundsWon = 0 /\ g.roundsLost = 0 /\ g.roundsPushed = 0
                   /\ g.bet = 0
                   /\ g.deck = <<>> /\ g.playerHand = <<>> /\ g.dealerHand = <<>>
                   /\ g.playerScore = 0 /\ g.dealerScore = 0
                   /\ g.winner = None
                   /\ ~ g.isBlackjack
                   /\ g.gameState = "idle"

\* C10: fullReset, in any phase and with or without a record, leaves
\* playerMoney 1000, the three counters 0, bet 0, deck and hands empty,
\* winner unset and phase idle.
C10_FullReset == [][C10_Step]_vars

\* fullReset was the last call, after two rounds had been dealt.
C10_Witness ==
    /\ call.op = "reset_game"
    /\ call.session_id \in DOMAIN games
    /\ deals = MaxDeals
    /\ games[call.session_id].playerMoney = 1000
    /\ games[call.session_id].gameState = "idle"

\* The stored scores of a session are the scores of its hands as they are.
ScoresMatch(s) ==
    /\ games[s].playerScore = calculate_score(heap[games[s].playerHand])
    /\ games[s].dealerScore = calculate_score(heap[games[s].dealerHand])

\* C11: in every reachable state of every session, playerScore is the
\* blackjack score of playerHand and dealerScore that of dealerHand.
C11_ScoresMatchHands == \A s \in DOMAIN games : ScoresMatch(s)

\* A hit has drawn a third card to the player, whose score follows the hand.
C11_Witness ==
    /\ call.op = "hit"
    /\ \E s \in DOMAIN games :
        /\ Len(heap[games[s].playerHand]) = 3
        /\ games[s].playerScore = calculate_score(heap[games[s].playerHand])
        /\ games[s].playerScore > 0

\* C12: in every reachable state, phase idle implies bet = 0, and phase
\* in_progress implies 1 <= bet <= playerMoney.
C12_BetWithinPhase ==
    \A s \in DOMAIN games :
        /\ games[s].gameState = "idle" => games[s].bet = 0
        /\ games[s].gameState = "in_progress" =>
              /\ 1 <= games[s].bet
              /\ games[s].bet <= games[s].playerMoney

\* A round is in progress on a bet of the whole balance.
C12_Witness ==
    \E s \in DOMAIN games :
        /\ games[s].gameState = "in_progress"
        /\ games[s].bet = games[s].playerMoney
        /\ games[s].bet >= 1

\* The cards of a session: its deck, then the player's hand, then the dealer's.
CardsOf(s) ==
    heap[games[s].deck] \o heap[games[s].playerHand] \o heap[games[s].dealerHand]

\* As many different cards as places (cards_equal is equality of cards).
NoDuplicate(cards) == Cardinality(Range(cards)) = Len(cards)

\* No card occurs twice across the deck and the two hands of a session.
C13_NoDuplicate == \A s \in DOMAIN games : NoDuplicate(CardsOf(s))

\* hit or stand has bound a new list object as the deck: it reshuffled.
Reshuffled(s) ==
    /\ Calls({"hit", "stand"}, s)
    /\ s \in DOMAIN games
    /\ games'[s].deck /= games[s].deck

\* What C13 asks of a step: after a reshuffle, and the draws of the call that
\* follow it, the deck holds the standard cards that are in neither hand.
C13_Step ==
    \A s \in SessionIds :
        Reshuffled(s) =>
            Range(heap'[games'[s].deck]) =
                Range(create_deck) \ (Range(heap'[games'[s].playerHand])
                                        \cup Range(heap'[games'[s].dealerHand]))

\* C13: in every reachable state, including after reshuffle-on-demand steps
\* during hit or dealer auto-play, no card occurs more than once across the
\* deck, the player hand and the dealer hand; a reshuffle installs as the
\* deck exactly the standard cards that are in neither hand.
C13_ReshuffleKeepsCardsUnique == []C13_NoDuplicate /\ [][C13_Step]_vars

\* stand was called on a deck of one card: the dealer drew it, the deck was
\* reshuffled, and the dealer drew again.
C13_Witness ==
    /\ call.op = "stand"
    /\ call.session_id \in DOMAIN games
    /\ heap[games[call.session_id].playerHand] \in LowPlayerHands
    /\ Len(heap[games[call.session_id].dealerHand]) >= 4
    /\ heap[games[call.session_id].dealerHand][3] = Card("4", "spades")
    /\ Len(CardsOf(call.session_id)) = 52

\* How often card c occurs in the sequence cards.
Count(cards, c) == Cardinality({i \in 1..Len(cards) : cards_equal(cards[i], c)})

IsPermutation(a, b) ==
    /\ Len(a) = Len(b)
    /\ \A c \in Range(a) \cup Range(b) : Count(a, c) = Count(b, c)

\* The player's hand, the dealer's hand and the deck of s after the step.
DealtOrder(s) ==
    heap'[games'[s].playerHand] \o heap'[games'[s].dealerHand] \o heap'[games'[s].deck]

\* What C14 asks of a step.
C14_Step ==
    \A s \in SessionIds :
        /\ Calls({"place_bet"}, s) /\ ret'.tag = "dict" =>
              /\ Len(heap'[games'[s].playerHand]) = 2
              /\ Len(heap'[games'[s].dealerHand]) = 2
              /\ Len(heap'[games'[s].deck]) = 48
              /\ DealtOrder(s) \in NewShuffledDeck
              /\ IsPermutation(DealtOrder(s), create_deck)
              /\ Cardinality(Range(DealtOrder(s))) = 52
        /\ Calls({"shuffle_deck"}, s) =>
              /\ ret'.tag = "list"
              /\ IsPermutation(ret'.val, heap[games[s].deck])
              /\ heap'[games[s].deck] = heap[games[s].deck]
              /\ games' = games

\* C14: immediately after every successful placeBet the player hand holds
\* the first two cards and the dealer hand the next two cards of a freshly
\* shuffled deck, the live deck holds the remaining 48, and the three
\* together are exactly the 52 distinct cards; shuffle returns a permutation
\* of its input and does not modify the input sequence.
C14_DealAndShuffle == [][C14_Step]_vars

\* placeBet has dealt: two cards each and a deck of 48.
C14_Witness ==
    /\ call.op = "place_bet"
    /\ ret.tag = "dict"
    /\ Len(heap[games[call.session_id].playerHand]) = 2
    /\ Len(heap[games[call.session_id].dealerHand]) = 2
    /\ Len(heap[games[call.session_id].deck]) = 48

\* The value of a rank with the ace counted as 1.
LowValue(rank) ==
    IF rank = "A" THEN 1
    ELSE IF rank \in {"K", "Q", "J"} THEN 10
    ELSE IntOfRank(rank)

\* The total of a hand with every ace counted as 1.
RECURSIVE LowTotal(_)
LowTotal(hand) ==
    IF hand = <<>> THEN 0 ELSE LowValue(Head(hand).rank) + LowTotal(Tail(hand))

\* The totals a hand can be counted as: each ace 11 or 1.
Totals(hand) == {LowTotal(hand) + 10 * j : j \in 0..CountAces(hand)}

\* The largest total that does not exceed 21, when there is one; otherwise
\* the total with every ace counted as 1.
BestScore(hand) ==
    IF \E t \in Totals(hand) : t <= 21
    THEN CHOOSE t \in Totals(hand) :
            /\ t <= 21
            /\ \A u \in Totals(hand) : u <= 21 => u <= t
    ELSE LowTotal(hand)

RanksOf(hand) == [i \in 1..Len(hand) |-> hand[i].rank]

\* C15: for every hand, score(hand) is the largest total obtainable by
\* counting each ace as 11 or 1 (face cards 10) that does not exceed 21 when
\* such a total exists, and otherwise the total with every ace counted as 1;
\* the empty hand scores 0, [A,A,9] scores 21 and [A,A,A,9] scores 12.
C15_ScoreIsBestTotal ==
    call.op = "calculate_score" /\ ret.tag = "int" =>
        /\ ret.val = BestScore(call.arg)
        /\ call.arg = <<>> => ret.val = 0
        /\ RanksOf(call.arg) = <<"A", "A", "9">> => ret.val = 21
        /\ RanksOf(call.arg) = <<"A", "A", "A", "9">> => ret.val = 12

\* calculate_score has returned 12 for three aces and a nine.
C15_Witness ==
    /\ call.op = "calculate_score"
    /\ RanksOf(call.arg) = <<"A", "A", "A", "9">>
    /\ ret = RetInt(12)

\* The threads that have stored a new record.
Makers == {t \in Threads : threads[t].made}

\* At most one thread has stored a new record, and when all the calls have
\* returned exactly one has.
OneRecordMade ==
    /\ Cardinality(Makers) <= 1
    /\ (\A t \in Threads : threads[t].pc = "done") =>
          Cardinality(Makers) = 1 /\ DOMAIN games = SessionIds

\* What C16 asks of a step: a thread that is in initialize_game while the
\* record exists leaves every record as it is, and what it returns is that
\* record.
C16_Step ==
    \A self \in Threads, s \in SessionIds :
        /\ threads[self].pc \in {"check", "create", "init_return"}
        /\ threads'[self].pc /= threads[self].pc
        /\ s \in DOMAIN games
        => /\ Records' = Records
           /\ threads[self].pc = "init_return" =>
                /\ threads'[self].ret.tag = "dict"
                /\ Content(heap', threads'[self].ret.val) = Records[s]

\* C16: two concurrent first accesses for the same session identifier
\* (initialize_game, get-then-initialize, or the auto-initialization of
\* place_bet and new_round) create exactly one record, and initialization
\* never overwrites a record that already exists: its money, bet, hands,
\* phase and counters are returned unchanged.
C16_OneRecordPerSession == []OneRecordMade /\ [][C16_Step]_vars

\* Both calls have returned: one thread made the record and placed its bet;
\* the other had found no record, went on to initialize_game, found the
\* record there and was returned it.
C16_Witness ==
    \E t, u \in Threads :
        /\ threads[t].pc = "done" /\ threads[u].pc = "done"
        /\ threads[t].op = "place_bet" /\ threads[t].made
        /\ threads[u].op = "get_current_state" /\ ~ threads[u].made
        /\ threads[u].found = "present"
        /\ threads[u].ret.tag = "dict"
        /\ threads[u].ret.val.bet = FirstBet

\* What C17 asks of a sweep: the sessions older than the max-age go, the
\* others stay as they are.
C17_Step ==
    /\ call'.op = "cleanup_old_sessions"
    /\ app'.wake /= app.wake \/ (app.phase = "stopping" /\ app'.phase = "down")
    =>
        \A s \in DOMAIN games :
            IF now - games[s].lastActivity > call'.arg
            THEN s \notin DOMAIN games'
            ELSE s \in DOMAIN games' /\ games'[s] = games[s]

\* At shutdown the task is cancelled before the last sweep, and after that
\* sweep the store is empty.
C17_Shutdown ==
    /\ app.phase \in {"stopping", "down"} => app.task = "cancelled"
    /\ app.phase = "down" =>
          /\ call = [op |-> "cleanup_old_sessions", session_id |-> "", arg |-> 0]
          /\ DOMAIN games = {}

\* C17: a janitor sweep with a given max-age removes every session whose
\* lastActivity is older than the max-age and removes no session touched
\* within the max-age; at shutdown the periodic janitor task is cancelled
\* first and then one sweep with max-age 0 runs, after which the session
\* store is empty.
C17_JanitorAndShutdown == []C17_Shutdown /\ [][C17_Step]_vars

\* The server is down: the last sweep, with max-age 0, removed both
\* sessions and the store is empty.
C17_Witness ==
    /\ app.phase = "down"
    /\ call = [op |-> "cleanup_old_sessions", session_id |-> "", arg |-> 0]
    /\ ret = RetInt(2)
    /\ DOMAIN games = {}

\* What C18 asks of a step: a detect call follows a detect call, and the
\* times of both are inside the persistence window of the detector.
C18_Step ==
    /\ call.op = "detect_gesture"
    /\ call'.op = "detect_gesture" /\ call'.arg = now /\ now' = now
    /\ detector.last_detection_time <= call.arg
    /\ call.arg - detector.last_detection_time < PersistenceTicks
    /\ now - detector.last_detection_time < PersistenceTicks
    => /\ ret'.gesture = ret.gesture
       /\ ret'.confidence <= ret.confidence

DetectReturned(t) ==
    /\ threads[t].pc = "idle"
    /\ threads[t].at >= 1
    /\ threads[t].script[threads[t].at] = "detect_gesture"

\* C19: every detect() call that starts while some reset() call is in
\* flight returns (idle, 0.0) and changes neither the detector's label,
\* confidence, last-detection time nor its history, for any number of
\* concurrent reset callers.
C19_DetectDuringReset ==
    \A t \in Threads :
        threads[t].at >= 1 /\ threads[t].script[threads[t].at] = "detect_gesture"
            /\ threads[t].during =>
                /\ ~ threads[t].wrote
                /\ DetectReturned(t) => threads[t].ret = IdleZero

\* How many of the calls of all the scripts are reset calls.
ResetCalls ==
    Cardinality({<<t, i>> \in Threads \X (1..MaxCallsEach) :
                    /\ i <= Len(threads[t].script)
                    /\ threads[t].script[i] = "reset"})

\* With one reset call among all the calls, a detect call that starts
\* while the reset is in flight returns (idle, 0.0) and writes nothing.
DetectDuringOnlyReset == ResetCalls = 1 => C19_DetectDuringReset

\* label idle, confidence 0.0, empty history
CleanState ==
    /\ detector.last_gesture = "idle"
    /\ detector.gesture_confidence = 0
    /\ detector.gesture_history = <<>>

\* C20: when a reset() call returns, in every interleaving with detect()
\* calls that started before the reset returned and on both the
\* lock-acquired path and the forced path, the resetting flag is cleared and
\* the detector is in the clean state, and it stays clean until a detect()
\* call that starts after the reset returned performs a fresh detection.
\* Stated for the runs in which one call of all is a reset.
C20_CleanAfterReset ==
    ResetCalls = 1 /\ ResetReturned =>
        /\ ~ detector.resetting
        /\ CleanState \/ \E t \in Threads : threads[t].fresh_after

\* No thread is inside a detector call.
NoDetectorCall == \A t \in Threads : threads[t].pc = "idle"

\* C21: every detect(), reset() and is_clean_state() call that acquires the
\* detector lock releases it before returning, on every path: in every
\* reachable state in which no such call is executing the detector lock is
\* free.
C21_LockFreeAtRest == NoDetectorCall => detector.lock = 0

\* In every state with a round in progress a stand call returns.
C22_StandReturns ==
    \A s \in DOMAIN games :
        games[s].gameState = "in_progress" => stand(World, s, now) /= {}

\* What C22 asks of a step: a stand call made in phase in_progress leaves
\* round_over with a winner; the dealer's hand is the old one with the drawn
\* cards appended, each drawn at a score below 17; the final score is 17 or
\* more, or no card is left outside the two hands.
C22_Step ==
    \A s \in SessionIds :
        /\ Calls({"stand"}, s)
        /\ s \in DOMAIN games
        /\ games[s].gameState = "in_progress"
        => /\ games'[s].gameState = "round_over"
           /\ games'[s].winner \in {"player", "dealer", "push"}
           /\ Len(heap'[games'[s].dealerHand]) >= Len(heap[games[s].dealerHand])
           /\ SubSeq(heap'[games'[s].dealerHand], 1, Len(heap[games[s].dealerHand]))
                = heap[games[s].dealerHand]
           /\ \A k \in Len(heap[games[s].dealerHand])..(Len(heap'[games'[s].dealerHand]) - 1) :
                calculate_score(SubSeq(heap'[games'[s].dealerHand], 1, k)) < DealerStand
           /\ games'[s].dealerScore = calculate_score(heap'[games'[s].dealerHand])
           /\ \/ games'[s].dealerScore >= DealerStand
              \/ Range(create_deck) \subseteq
                    Range(heap'[games'[s].playerHand]) \cup Range(heap'[games'[s].dealerHand])

\* C22: every stand call made in phase in_progress terminates and leaves the
\* session in phase round_over; the dealer draws a card only while
\* dealerScore < 17, and on return dealerScore >= 17 unless no card remained
\* outside the two hands to replenish the deck, in which case settlement
\* still proceeds with the scores at hand.
C22_DealerPlaysTo17 == []C22_StandReturns /\ [][C22_Step]_vars

\* stand was called on the dealer's 2 and 3 and an empty deck: the deck was
\* replenished, the dealer drew three cards or more and stopped at 17 or more.
C22_Witness ==
    /\ call.op = "stand"
    /\ call.session_id \in DOMAIN games
    /\ games[call.session_id].gameState = "round_over"
    /\ SubSeq(heap[games[call.session_id].dealerHand], 1, 2)
         = <<Card("2", "clubs"), Card("3", "clubs")>>
    /\ Len(heap[games[call.session_id].dealerHand]) >= 5
    /\ heap[games[call.session_id].dealerHand][3] /= Card("4", "spades")
    /\ games[call.session_id].dealerScore >= DealerStand

\* The rules in the order of the claim: the dealer's score is tested first.
WinnerDealerFirst(player_score, dealer_score) ==
    IF dealer_score > 21 THEN "player"
    ELSE IF player_score > 21 THEN "dealer"
    ELSE IF player_score > dealer_score THEN "player"
    ELSE IF dealer_score > player_score THEN "dealer"
    ELSE "push"

\* The rules with the player's score tested first.
WinnerPlayerFirst(player_score, dealer_score) ==
    IF player_score > 21 THEN "dealer"
    ELSE IF dealer_score > 21 THEN "player"
    ELSE IF player_score > dealer_score THEN "player"
    ELSE IF dealer_score > player_score THEN "dealer"
    ELSE "push"

\* The comparison applied to a pair of scores gives the winner of the rules
\* in the order of the claim, and so does every stand.
C23_StepAsStated ==
    /\ call'.op = "WinnerOf" =>
        ret'.val.winner = WinnerDealerFirst(call'.arg[1], call'.arg[2])
    /\ \A s \in SessionIds :
        Calls({"stand"}, s) /\ s \in DOMAIN games /\ games[s].gameState = "in_progress"
            => games'[s].winner
                 = WinnerDealerFirst(games'[s].playerScore, games'[s].dealerScore)

\* C23 as stated: for every pair of final scores, including pairs in which
\* both exceed 21, the rules are applied in the order dealer > 21 gives
\* player, player > 21 gives dealer, player > dealer gives player, dealer >
\* player gives dealer, equal gives push, and the winner recorded after every
\* stand is the one these rules give.
C23_AsStated == [][C23_StepAsStated]_vars

C23_Step ==
    /\ call'.op = "WinnerOf" =>
        ret'.val.winner = WinnerPlayerFirst(call'.arg[1], call'.arg[2])
    /\ \A s \in SessionIds :
        Calls({"stand"}, s) /\ s \in DOMAIN games /\ games[s].gameState = "in_progress"
            => /\ games'[s].winner
                    = WinnerPlayerFirst(games'[s].playerScore, games'[s].dealerScore)
               /\ ret'.val.winner = games'[s].winner

\* C23, amended: for every pair of final scores, including pairs in which
\* both exceed 21, the rules are applied in the order player > 21 gives
\* dealer, dealer > 21 gives player, player > dealer gives player, dealer >
\* player gives dealer, equal gives push, and the winner recorded after every
\* stand is the one these rules give for the final scores.
C23_WinnerRules == [][C23_Step]_vars

\* The comparison was applied to two scores above 21 and gave the dealer.
C23_Witness ==
    /\ call.op = "WinnerOf"
    /\ call.arg[1] > 21 /\ call.arg[2] > 21
    /\ ret = RetVerdict([winner |-> "dealer", message |-> Msg("You busted!", 0, 0)])

\* A stand has ended a round with the dealer above 21 and the player the winner.
DealerBustAtStand ==
    /\ call.op = "stand"
    /\ call.session_id \in DOMAIN games
    /\ games[call.session_id].dealerScore > 21
    /\ games[call.session_id].winner = "player"

\* C24: in every reachable state with phase in_progress, playerScore <= 21,
\* the player hand has at least 2 cards, the dealer hand has exactly 2 cards,
\* neither hand is a two-card natural, isBlackjack is false and winner is
\* unset.
C24_InProgress ==
    \A s \in DOMAIN games :
        games[s].gameState = "in_progress" =>
            /\ games[s].playerScore <= 21
            /\ Len(heap[games[s].playerHand]) >= 2
            /\ Len(heap[games[s].dealerHand]) = 2
            /\ ~ is_blackjack(heap[games[s].playerHand])
            /\ ~ is_blackjack(heap[games[s].dealerHand])
            /\ ~ games[s].isBlackjack
            /\ games[s].winner = None

\* A hit has drawn a third card and the round is still in progress.
C24_Witness ==
    /\ call.op = "hit"
    /\ call.session_id \in DOMAIN games
    /\ games[call.session_id].gameState = "in_progress"
    /\ Len(heap[games[call.session_id].playerHand]) >= 3
    /\ ret.tag = "dict"

\* What C25 asks of a step: the balance of an existing record differs after
\* the call only when the call settled a round or was reset_game, and the
\* calls the claim lists leave it as it was.
C25_Step ==
    \A s \in SessionIds :
        s \in DOMAIN games /\ s \in DOMAIN games' =>
            /\ games'[s].playerMoney /= games[s].playerMoney
                => Settles(s) \/ Calls({"reset_game"}, s)
            /\ (/\ Calls({"place_bet", "hit"}, s)
                /\ games'[s].gameState = "in_progress")
                => games'[s].playerMoney = games[s].playerMoney
            /\ Calls({"new_round", "get_game_state", "initialize_game"}, s)
                => games'[s].playerMoney = games[s].playerMoney
            /\ (Calls({"place_bet"}, s) /\ ret' = RetNone)
                => games'[s].playerMoney = games[s].playerMoney
            /\ (/\ Calls({"hit", "stand"}, s)
                /\ games[s].gameState /= "in_progress")
                => games'[s].playerMoney = games[s].playerMoney

\* C25: playerMoney is changed only by a step that settles a round (the
\* step that sets phase to round_over) and by fullReset: a placeBet that
\* deals no natural, a hit that does not bust, newRound, get, getOrInit on
\* an existing record and every rejected operation leave playerMoney
\* unchanged.
C25_MoneyOnlyAtSettlement == [][C25_Step]_vars

\* In a later round, after a settlement has changed the balance, a hit has
\* drawn a card without a bust and the changed balance is still there.
C25_Witness ==
    /\ call.op = "hit"
    /\ call.session_id \in DOMAIN games
    /\ games[call.session_id].gameState = "in_progress"
    /\ Len(heap[games[call.session_id].playerHand]) >= 3
    /\ games[call.session_id].playerMoney /= StartingMoney
    /\ games[call.session_id].roundsWon + games[call.session_id].roundsLost >= 1

\* C26: after any sequence of engine operations on a session,
\* playerMoney >= 0.
C26_MoneyNotNegative == \A s \in DOMAIN games : games[s].playerMoney >= 0

\* The whole starting balance was bet and lost: the balance is 0.
C26_Witness ==
    /\ call.session_id \in DOMAIN games
    /\ games[call.session_id].gameState = "round_over"
    /\ games[call.session_id].winner = "dealer"
    /\ games[call.session_id].bet = StartingMoney
    /\ games[call.session_id].playerMoney = 0

\* The three round counters of a record.
Counters(game) == <<game.roundsWon, game.roundsLost, game.roundsPushed>>

\* The counters with the one of `winner` higher by 1.
CountedFor(game, winner) ==
    <<game.roundsWon + (IF winner = "player" THEN 1 ELSE 0),
      game.roundsLost + (IF winner = "dealer" THEN 1 ELSE 0),
      game.roundsPushed + (IF winner = "push" THEN 1 ELSE 0)>>

\* What C27 asks of a step: a settlement records a winner and raises the
\* counter of that winner by 1 and no other; any other call but reset_game
\* leaves the three counters of an existing record as they were.
C27_Step ==
    \A s \in SessionIds :
        /\ Settles(s) =>
            /\ games'[s].winner \in {"player", "dealer", "push"}
            /\ Counters(games'[s])
                 = CountedFor(IF s \in DOMAIN games THEN games[s]
                              ELSE [roundsWon |-> 0, roundsLost |-> 0, roundsPushed |-> 0],
                              games'[s].winner)
        /\ (/\ s \in DOMAIN games /\ s \in DOMAIN games'
            /\ ~ Settles(s)
            /\ ~ Calls({"reset_game"}, s))
            => Counters(games'[s]) = Counters(games[s])

\* No more rounds are counted than bets were accepted, and while a round is
\* in progress its bet is not among the counted ones.
C27_SettledOnce ==
    \A s \in DOMAIN games :
        games[s].roundsWon + games[s].roundsLost + games[s].roundsPushed
            <= deals - (IF games[s].gameState = "in_progress" THEN 1 ELSE 0)

\* C27: every settlement increments exactly one of roundsWon, roundsLost,
\* roundsPushed by exactly 1, the one matching the winner it records, and
\* each accepted bet is settled at most once; no operation other than a
\* settlement and fullReset changes any of the three counters.
C27_CountersFollowSettlements == []C27_SettledOnce /\ [][C27_Step]_vars

\* Two bets were accepted and both rounds are counted: one won and one lost.
C27_Witness ==
    /\ call.session_id \in DOMAIN games
    /\ deals = 2
    /\ games[call.session_id].gameState = "round_over"
    /\ games[call.session_id].roundsWon = 1
    /\ games[call.session_id].roundsLost = 1
    /\ games[call.session_id].roundsPushed = 0

\* What C28 asks of a step: a hit or a stand on an identifier without a
\* record returns None and leaves the store and its list objects as they were.
C28_Step ==
    \A s \in SessionIds :
        Calls({"hit", "stand"}, s) /\ s \notin DOMAIN games =>
            /\ ret' = RetNone
            /\ games' = games
            /\ DOMAIN games' = DOMAIN games
            /\ heap' = heap

\* C28: hit and stand on a session identifier that has no record return the
\* not-found result and create no record: the session store is the same
\* before and after the call.
C28_NotFoundCreatesNothing == [][C28_Step]_vars

\* A stand was called while the store had no record, and there is none.
C28_Witness ==
    /\ call.op = "stand"
    /\ call.session_id \notin DOMAIN games
    /\ ret = RetNone

\* The calls that read or change the record of the session they name.
RecordCalls ==
    {"get_game_state", "initialize_game", "place_bet", "hit", "stand", "new_round"}

\* What C29 asks of a step: a call (a step on which no time passes) on an
\* existing record, accepted or rejected, leaves the record's lastActivity
\* at the current time.
C29_Step ==
    \A s \in SessionIds :
        (/\ Calls(RecordCalls, s) /\ now' = now
         /\ s \in DOMAIN games /\ s \in DOMAIN games')
            => games'[s].lastActivity = now

\* lastActivity of a record is never later than the clock and never goes back.
C29_Monotonic ==
    \A s \in SessionIds :
        s \in DOMAIN games /\ s \in DOMAIN games' =>
            games'[s].lastActivity >= games[s].lastActivity

\* C29: every operation that reads or mutates an existing session record
\* (get, getOrInit on an existing record, placeBet, hit, stand, newRound,
\* including calls that are rejected) sets that record's lastActivity to the
\* current time, so lastActivity never decreases and a session that was just
\* accessed is never older than the eviction threshold.
C29_EveryCallTouches == [][C29_Step /\ C29_Monotonic]_vars

\* lastActivity never goes back, and the calls that are accepted stamp it.
LastActivityKept ==
    [][/\ C29_Monotonic
       /\ \A s \in SessionIds :
            (/\ Calls(RecordCalls \ {"initialize_game"}, s) /\ now' = now
             /\ s \in DOMAIN games
             /\ games'[s] /= games[s])
                => games'[s].lastActivity = now]_vars

\* What get_gesture_statistics returns for a history that stands still.
StatisticsOf(history) ==
    IF history = <<>> THEN NoStatistics
    ELSE Statistics(Len(history), SumConfidence(history), GestureCounts(history),
                    MostCommon(history),
                    IF Len(history) >= 2
                    THEN history[Len(history)].timestamp - history[1].timestamp
                    ELSE 0)

\* The thread's call of get_gesture_statistics has ended, with a dict or
\* with an exception.
StatsReturned(t) ==
    /\ threads[t].pc = "idle"
    /\ threads[t].at >= 1
    /\ threads[t].script[threads[t].at] = "get_gesture_statistics"

\* C30: statistics() reads the detector's rolling history only while holding
\* the detector lock, so in every interleaving with detect() and reset() the
\* count, mean confidence, distribution and first/last timestamps it reports
\* all come from one single state of the history.
C30_StatisticsOfOneState ==
    \A t \in Threads :
        StatsReturned(t) /\ threads[t].ret.tag = "stats" =>
            \E i \in 1..Len(threads[t].seen) :
                threads[t].ret = StatisticsOf(threads[t].seen[i])

\* get_gesture_statistics raises nothing.
StatisticsNeverRaises ==
    \A t \in Threads : StatsReturned(t) => threads[t].ret.tag = "stats"

\* get_current_gesture has returned to thread t.
CurrentReturned(t) ==
    /\ threads[t].pc = "idle"
    /\ threads[t].ret.tag = "current"

\* C31: in every dict get_current_gesture returns, is_confident being true
\* implies that the gesture of that dict is not idle and that the confidence
\* of that dict is at least 0.8 and at least the detector's threshold 0.6.
C31_ConfidentMatchesResult ==
    \A t \in Threads :
        CurrentReturned(t) /\ threads[t].ret.is_confident =>
            /\ threads[t].ret.gesture # "idle"
            /\ threads[t].ret.confidence >= DefaultMinConfidence
            /\ threads[t].ret.confidence >= min_confidence_threshold

\* A call of get_current_gesture that took the persistence branch has
\* returned the decayed confidence 0.75 of a gesture held at 0.8, with
\* is_confident true.
HeldGestureDecayed ==
    \E t \in Threads :
        /\ CurrentReturned(t)
        /\ threads[t].ret = CurrentGesture("hit", DefaultMinConfidence - DecayPerTick, TRUE)
        /\ threads[t].current_time = detector.last_detection_time + 1
        /\ detector.gesture_confidence = DefaultMinConfidence
        /\ detector.lock = 0
        /\ \A u \in Threads : threads[u].pc = "idle" /\ NextCall(u) = "none"

\* The last n entries of sequence q, all of them when it has fewer.
LastOf(q, n) ==
    IF Len(q) <= n THEN q ELSE SubSeq(q, Len(q) - n + 1, Len(q))

\* The history holds at most max_history_length entries, the older before
\* the newer.
C32_Bounded ==
    /\ Len(detector.gesture_history) <= max_history_length
    /\ \A i, j \in 1..Len(detector.gesture_history) :
        i < j => detector.gesture_history[i].timestamp
                    < detector.gesture_history[j].timestamp

\* What C32 asks of a detect call: a fresh detection leaves the last
\* max_history_length entries of the history with its own entry appended,
\* any other detect call leaves the history as it was.
C32_Step ==
    call'.op = "detect_gesture" /\ call'.arg = now /\ now' = now
    => detector'.gesture_history =
        IF Persisting(detector, now)
        THEN detector.gesture_history
        ELSE LastOf(Append(detector.gesture_history,
                           [gesture |-> ret'.gesture,
                            confidence |-> ret'.confidence,
                            timestamp |-> now]),
                    max_history_length)

====
